---- MODULE Spec2Model ----
(***************************************************************************)
(* Booking workflow of the dental clinic agent: the per-conversation memo  *)
(* (src/models/conversation.py), the last-booking reference and the tools  *)
(* book / cancel / reschedule / lookup (src/tools/appointments.py), and    *)
(* the calendar client they call (src/services/calcom.py).                 *)
(***************************************************************************)
EXTENDS Integers, Sequences, FiniteSets, TLC

(***************************************************************************)
(* Bounds of the model.                                                    *)
(***************************************************************************)
\* number of bookings the remote service can hold (initial ones included)
MaxBookings == 3
\* number of tool calls of one conversation
MaxTurns == 3
\* number of ConversationMemo objects created while conversations run in
\* parallel
MaxObjects == 3

(***************************************************************************)
(* Strings.  A Python str or None is a token; the string functions the     *)
(* code uses are tabulated over the tokens that occur.                     *)
(***************************************************************************)
NoneVal == "None"

\* bool(s) for an Optional[str]
Truthy(s) == s # NoneVal /\ s # ""

\* str.strip()
Strip(s) == IF s = " " THEN "" ELSE s

\* `not s or not s.strip()`
IsBlank(s) == ~Truthy(s) \/ ~Truthy(Strip(s))

\* str.lower()
Lower(s) == CASE s = "Ann Lee" -> "ann lee"
              [] s = "Bob" -> "bob"
              [] OTHER -> s

\* set(name.lower().split())
WordsOf(s) == CASE s = "ann" -> {"ann"}
                [] s = "ann lee" -> {"ann", "lee"}
                [] s = "bob" -> {"bob"}
                [] OTHER -> {}

_normalize_name(name) == IF ~Truthy(name) THEN {} ELSE WordsOf(Lower(name))

_names_match(user_provided_name, stored_name) ==
    IF ~Truthy(user_provided_name) \/ ~Truthy(stored_name) THEN FALSE
    ELSE _normalize_name(user_provided_name) \subseteq _normalize_name(stored_name)

\* ''.join(filter(str.isdigit, phone))
_normalize_phone(phone) == CASE ~Truthy(phone) -> ""
                             [] phone = "5-1" -> "51"
                             [] phone = " " -> ""
                             [] OTHER -> phone

_phones_match(user_phone, booking_phone) ==
    IF ~Truthy(user_phone) \/ ~Truthy(booking_phone) THEN FALSE
    ELSE _normalize_phone(user_phone) = _normalize_phone(booking_phone)

(***************************************************************************)
(* Timestamps.  A timestamp string is a record: kind "iso" is an ISO-8601  *)
(* string with an offset, "naive" one without an offset, "bad" a string    *)
(* datetime.fromisoformat rejects, "none" is None.  date counts days       *)
(* (date 0 is a Monday), hm is the minute of the day as written and off    *)
(* the written UTC offset in minutes.                                      *)
(***************************************************************************)
\* minutes in a calendar day
MinutesPerDay == 24 * 60
\* UTC offset of Asia/Kolkata, the working timezone, in minutes
KolkataOffset == 330

TS(d, m, o) == [kind |-> "iso", date |-> d, hm |-> m, off |-> o]
Naive(d, m) == [kind |-> "naive", date |-> d, hm |-> m, off |-> 0]
NoTime == [kind |-> "none", date |-> 0, hm |-> 0, off |-> 0]
BadTime == [kind |-> "bad", date |-> 0, hm |-> 0, off |-> 0]

\* bool(s) for an Optional[str] holding a time
TruthyTime(t) == t.kind # "none"

\* datetime.fromisoformat(s.replace("Z", "+00:00")) succeeds
Parses(t) == t.kind \in {"iso", "naive"}

\* the instant an offset-bearing timestamp denotes, in minutes
Instant(t) == t.date * MinutesPerDay + t.hm - t.off

\* datetime.astimezone(tz) rendered again as a timestamp with offset o
AsTimezone(t, o) ==
    LET local == Instant(t) + o
    IN  [kind |-> "iso", date |-> local \div MinutesPerDay,
         hm |-> local % MinutesPerDay, off |-> o]

\* strftime('%H:%M') of the parsed timestamp: the clock as written
ClockOf(t) == t.hm

(***************************************************************************)
(* Value domains of the model.                                             *)
(***************************************************************************)
\* duration_minutes of the tools, and of the bookings of the event type
DefaultDuration == 30
\* the booking-lead buffer of the slot generator, in minutes
LeadMinutes == 10
\* the furthest day ahead get_availability looks at
MaxDaysAhead == 90

Emails == {"e1", "e2"}
Uids == <<"u1", "u2", "u3", "u4", "u5">>

T1000 == TS(1, 600, KolkataOffset)
T1030 == TS(1, 630, KolkataOffset)
T1100 == TS(1, 660, KolkataOffset)

(***************************************************************************)
(* The remote calendar service: the bookings it holds, in the order it     *)
(* lists them.  A booking's start is a UTC timestamp.                      *)
(***************************************************************************)
\* the "duration" of a booking record: a number, a missing key, or a value
\* timedelta(minutes=...) does not take
JsonInt(n) == [kind |-> "int", n |-> n]
MissingKey == [kind |-> "missing", n |-> 0]
Malformed == [kind |-> "bad", n |-> 0]

RemoteBooking(u, t, n, e, p, st) ==
    [name |-> n, phone |-> p, uid |-> u, start |-> t,
     duration |-> JsonInt(DefaultDuration), email |-> e, status |-> st]

NoBooking == RemoteBooking(NoneVal, NoTime, NoneVal, NoneVal, NoneVal, NoneVal)

FamilyBookings ==
    << RemoteBooking("u1", AsTimezone(T1000, 0), "Ann Lee", "e1", "5-1", "accepted"),
       RemoteBooking("u2", AsTimezone(T1030, 0), "Bob", "e1", "", "accepted") >>

IndexOfUid(bookings, u) ==
    IF \E i \in 1..Len(bookings) : bookings[i].uid = u
    THEN CHOOSE i \in 1..Len(bookings) : bookings[i].uid = u
    ELSE 0

\* status=upcoming / upcoming,unconfirmed: the bookings that are not cancelled
IsActive(b) == b.status = "accepted"

(***************************************************************************)
(* Remote calls of one operation, in order.                                *)
(***************************************************************************)
Call(f, u, e, t) == [uid |-> u, start |-> t, email |-> e, fn |-> f]

CallsOf(cs, f) == SelectSeq(cs, LAMBDA c : c.fn = f)

(***************************************************************************)
(* ConversationMemo (src/models/conversation.py).                          *)
(***************************************************************************)
NoAppointment == [name |-> NoneVal, phone |-> NoneVal, email |-> NoneVal,
                  id |-> NoneVal, time |-> NoTime]

\* ConversationMemo.__init__
NewMemo == [patient_email |-> NoneVal, patient_name |-> NoneVal,
            patient_phone |-> NoneVal, preferred_doctor |-> NoneVal,
            appointment_reason |-> NoneVal, appointments |-> <<>>,
            current_appointment |-> NoAppointment, action |-> NoneVal]

update_patient_email(m, email) ==
    IF Truthy(email) THEN [m EXCEPT !.patient_email = email] ELSE m

update_patient_name(m, name) ==
    IF Truthy(name) THEN [m EXCEPT !.patient_name = name] ELSE m

\* a variant of the setter that stores whatever it is given
update_patient_phone_Unconditional(m, phone) == [m EXCEPT !.patient_phone = phone]

update_patient_phone(m, phone) ==
    IF Truthy(phone) THEN [m EXCEPT !.patient_phone = phone] ELSE m

set_appointments(m, appointments) ==
    IF appointments # <<>> THEN [m EXCEPT !.appointments = appointments] ELSE m

\* a variant of the setter that stores nothing
set_current_appointment_Dropped(m, appointment) == m

set_current_appointment(m, appointment) ==
    IF appointment # NoAppointment
    THEN [m EXCEPT !.current_appointment = appointment] ELSE m

set_action(m, action) ==
    IF Truthy(action) THEN [m EXCEPT !.action = action] ELSE m

set_preferred_doctor(m, doctor) ==
    IF Truthy(doctor) THEN [m EXCEPT !.preferred_doctor = doctor] ELSE m

set_appointment_reason(m, reason) ==
    IF Truthy(reason) THEN [m EXCEPT !.appointment_reason = reason] ELSE m

(***************************************************************************)
(* The last-booking reference (_last_booking_context).                     *)
(***************************************************************************)
LastBooking(k, u, n, e, p, t, all) ==
    [name |-> n, phone |-> p, kind |-> k, email |-> e, booking_id |-> u,
     appointment_time |-> t, all_appointments |-> all]

NoLastBooking == LastBooking("none", NoneVal, NoneVal, NoneVal, NoneVal, NoTime, <<>>)

(***************************************************************************)
(* Calendar client (src/services/calcom.py): booking lookup.               *)
(***************************************************************************)
\* GET /bookings with attendeeEmail; any failure yields the empty list
get_bookings_by_email(bookings, attendee_email, fetchOk) ==
    IF ~Truthy(attendee_email) \/ ~fetchOk THEN <<>>
    ELSE SelectSeq(bookings, LAMBDA b : IsActive(b) /\ b.email = attendee_email)

\* GET /bookings without an attendee filter
get_bookings(bookings, fetchOk) ==
    IF ~fetchOk THEN <<>> ELSE SelectSeq(bookings, IsActive)

_extract_attendee_phone(booking) ==
    IF Truthy(booking.phone) THEN booking.phone ELSE NoneVal

_matches_appointment_time(booking, appointment_time) ==
    LET booking_dt_local == AsTimezone(booking.start, KolkataOffset)
        requested_dt == IF appointment_time.kind = "naive"
                        THEN TS(appointment_time.date, appointment_time.hm, KolkataOffset)
                        ELSE AsTimezone(appointment_time, KolkataOffset)
    IN  IF booking.start.kind = "none" THEN FALSE
        ELSE IF Parses(appointment_time)
        THEN /\ booking_dt_local.date = requested_dt.date
             /\ booking_dt_local.hm \div 60 = requested_dt.hm \div 60
        ELSE FALSE

\* sorted(..., key=start): stable insertion of b into a list ordered by start
RECURSIVE InsertByStart(_, _)
InsertByStart(sorted, b) ==
    IF sorted = <<>> THEN <<b>>
    ELSE IF Instant(b.start) < Instant(Head(sorted).start)
         THEN <<b>> \o sorted
         ELSE <<Head(sorted)>> \o InsertByStart(Tail(sorted), b)

RECURSIVE SortByStart(_)
SortByStart(bookings) ==
    IF bookings = <<>> THEN <<>>
    ELSE InsertByStart(SortByStart(SubSeq(bookings, 1, Len(bookings) - 1)),
                       bookings[Len(bookings)])

\* sorted(..., key=start, reverse=True): stable, latest start first
RECURSIVE InsertByStartDesc(_, _)
InsertByStartDesc(sorted, b) ==
    IF sorted = <<>> THEN <<b>>
    ELSE IF Instant(b.start) > Instant(Head(sorted).start)
         THEN <<b>> \o sorted
         ELSE <<Head(sorted)>> \o InsertByStartDesc(Tail(sorted), b)

RECURSIVE SortByStartDesc(_)
SortByStartDesc(bookings) ==
    IF bookings = <<>> THEN <<>>
    ELSE InsertByStartDesc(SortByStartDesc(SubSeq(bookings, 1, Len(bookings) - 1)),
                           bookings[Len(bookings)])

\* a variant of the filters that lets a booking through when either the
\* name or the phone matches
PassesNamePhone_Either(booking, patient_name, patient_phone) ==
    \/ Truthy(patient_name) => _names_match(patient_name, booking.name)
    \/ Truthy(patient_phone) =>
          /\ Truthy(_extract_attendee_phone(booking))
          /\ _phones_match(patient_phone, _extract_attendee_phone(booking))

\* the name and phone filters shared by the two lookups
PassesNamePhone(booking, patient_name, patient_phone) ==
    /\ Truthy(patient_name) => _names_match(patient_name, booking.name)
    /\ Truthy(patient_phone) =>
          /\ Truthy(_extract_attendee_phone(booking))
          /\ _phones_match(patient_phone, _extract_attendee_phone(booking))

\* the bookings a lookup fetches: by email when given, else all active ones
FetchForLookup(bookings, patient_email, fetchOk) ==
    IF Truthy(patient_email)
    THEN get_bookings_by_email(bookings, patient_email, fetchOk)
    ELSE get_bookings(bookings, fetchOk)

\* a variant of the lookup that fetches all bookings when it is given
\* neither an email nor a name
LookupCalls_Unscoped(patient_name, patient_email) ==
    IF Truthy(patient_email)
    THEN << Call("get_bookings_by_email", NoneVal, patient_email, NoTime) >>
    ELSE << Call("get_bookings", NoneVal, NoneVal, NoTime) >>

\* the remote calls a lookup makes
LookupCalls(patient_name, patient_email) ==
    IF ~Truthy(patient_email) /\ ~Truthy(patient_name) THEN <<>>
    ELSE IF Truthy(patient_email)
         THEN << Call("get_bookings_by_email", NoneVal, patient_email, NoTime) >>
         ELSE << Call("get_bookings", NoneVal, NoneVal, NoTime) >>

find_booking_by_patient_info(bookings, patient_name, patient_email, patient_phone, appointment_time, fetchOk) ==
    LET fetched == FetchForLookup(bookings, patient_email, fetchOk)
        matching_bookings ==
            SelectSeq(fetched, LAMBDA b :
                /\ PassesNamePhone(b, patient_name, patient_phone)
                /\ TruthyTime(appointment_time) =>
                       _matches_appointment_time(b, appointment_time))
    IN  IF ~Truthy(patient_email) /\ ~Truthy(patient_name) THEN NoBooking
        ELSE IF matching_bookings = <<>> THEN NoBooking
        ELSE IF Len(matching_bookings) > 1
             THEN SortByStartDesc(matching_bookings)[1]
             ELSE matching_bookings[1]

\* a variant of the lookup that returns the earliest match only
find_all_bookings_by_patient_info_First(bookings, patient_name, patient_email, patient_phone, fetchOk) ==
    LET fetched == FetchForLookup(bookings, patient_email, fetchOk)
        matching_bookings ==
            SelectSeq(fetched, LAMBDA b :
                PassesNamePhone(b, patient_name, patient_phone))
    IN  IF ~Truthy(patient_email) /\ ~Truthy(patient_name) THEN <<>>
        ELSE IF matching_bookings = <<>> THEN <<>>
        ELSE << SortByStart(matching_bookings)[1] >>

find_all_bookings_by_patient_info(bookings, patient_name, patient_email, patient_phone, fetchOk) ==
    LET fetched == FetchForLookup(bookings, patient_email, fetchOk)
        matching_bookings ==
            SelectSeq(fetched, LAMBDA b :
                PassesNamePhone(b, patient_name, patient_phone))
    IN  IF ~Truthy(patient_email) /\ ~Truthy(patient_name) THEN <<>>
        ELSE SortByStart(matching_bookings)

(***************************************************************************)
(* Calendar client: createBooking and cancelBooking.                       *)
(***************************************************************************)
\* a variant of the conversion that rebuilds the start from the parsed date
\* and hour, dropping the minutes
BookingStartSent_HourOnly(start_time, sysoff) ==
    CASE start_time.kind = "iso" ->
            [AsTimezone(start_time, 0) EXCEPT !.hm = (@ \div 60) * 60]
      [] start_time.kind = "naive" ->
            [AsTimezone(TS(start_time.date, start_time.hm, sysoff), 0)
                EXCEPT !.hm = (@ \div 60) * 60]
      [] OTHER -> start_time

\* the "start" of the booking payload: the start time converted to UTC.  A
\* naive time is read in the system's local zone (offset sysoff) by
\* astimezone; an unparsable string is sent as it is.
BookingStartSent(start_time, sysoff) ==
    CASE start_time.kind = "iso" -> AsTimezone(start_time, 0)
      [] start_time.kind = "naive" ->
            AsTimezone(TS(start_time.date, start_time.hm, sysoff), 0)
      [] OTHER -> start_time

\* what the client returns: status, the "error" key and the "data" key
Result(st, err, hasData, dataStatus, u) ==
    [uid |-> u, status |-> st, dataStatus |-> dataStatus,
     error |-> err, data |-> hasData]

DryRunResult == Result("DRY_RUN", NoneVal, FALSE, NoneVal, NoneVal)

\* an HTTP response of the service: ok, the body's status and data, message
Http(isOk, st, hasData, dataStatus, u, msg) ==
    [uid |-> u, status |-> st, dataStatus |-> dataStatus, data |-> hasData,
     ok |-> isOk, message |-> msg]

\* book_appointment's return value for a response of POST /bookings
book_appointment_result(dry, resp) ==
    IF dry THEN DryRunResult
    ELSE IF ~resp.ok THEN Result("error", resp.message, FALSE, NoneVal, NoneVal)
    ELSE Result(resp.status, NoneVal, resp.data, resp.dataStatus, resp.uid)

\* cancel_appointment's return value for a response of POST /bookings/uid/cancel
cancel_appointment_result(dry, resp) ==
    IF dry THEN DryRunResult
    ELSE IF ~resp.ok THEN Result("error", resp.message, FALSE, NoneVal, NoneVal)
    ELSE IF resp.data /\ resp.dataStatus = "cancelled"
         THEN Result("success", NoneVal, resp.data, resp.dataStatus, resp.uid)
    ELSE IF resp.status = NoneVal
         THEN Result("success", NoneVal, resp.data, resp.dataStatus, resp.uid)
    ELSE Result(resp.status, NoneVal, resp.data, resp.dataStatus, resp.uid)

\* the responses POST /bookings can give for a new booking with uid u
BookOk(u) == Http(TRUE, "success", TRUE, "accepted", u, NoneVal)
BookConflict == Http(FALSE, NoneVal, FALSE, NoneVal, NoneVal, "slot not available")
BookError == Http(FALSE, NoneVal, FALSE, NoneVal, NoneVal, "internal error")

\* the responses POST /bookings/uid/cancel can give
CancelOk(u) == Http(TRUE, "success", TRUE, "cancelled", u, NoneVal)
CancelOkBare == Http(TRUE, NoneVal, FALSE, NoneVal, NoneVal, NoneVal)
CancelNotFound == Http(FALSE, NoneVal, FALSE, NoneVal, NoneVal, "booking not found")
CancelError == Http(FALSE, NoneVal, FALSE, NoneVal, NoneVal, "internal error")

\* any(keyword in error_msg.lower() for "not available", "booked", ...)
IsAvailabilityIssue(error_msg) == error_msg = "slot not available"

\* "not found" in error_msg.lower() or "invalid" in error_msg.lower()
IsNotFoundMessage(error_msg) == error_msg = "booking not found"

(***************************************************************************)
(* Calendar client: availability.                                          *)
(***************************************************************************)
\* the clock: Monday 09:00 in the working timezone
Now == TS(0, 9 * 60, KolkataOffset)

\* the schedule the service returns: Monday to Friday, 10:00 to 14:00
Schedule == [workingHours |->
                << [days |-> {1, 2, 3, 4, 5}, startTime |-> 10 * 60,
                    endTime |-> 14 * 60] >>]

\* datetime.isoweekday() of a date
IsoWeekday(d) == (d % 7) + 1

\* a variant of the slot loop that keeps the slots earlier than min_booking_time
RECURSIVE DaySlots_NoLead(_, _, _, _, _, _)
DaySlots_NoLead(d, slot_start, work_end, duration_minutes, tzoff, min_booking_time) ==
    IF slot_start + duration_minutes <= work_end
    THEN << TS(d, slot_start, tzoff) >>
         \o DaySlots_NoLead(d, slot_start + duration_minutes, work_end,
                            duration_minutes, tzoff, min_booking_time)
    ELSE <<>>

\* a variant of the slot loop that stops before a slot ending at end_minutes
RECURSIVE DaySlots_Strict(_, _, _, _, _, _)
DaySlots_Strict(d, slot_start, work_end, duration_minutes, tzoff, min_booking_time) ==
    IF slot_start + duration_minutes < work_end
    THEN (IF Instant(TS(d, slot_start, tzoff)) >= min_booking_time
          THEN << TS(d, slot_start, tzoff) >> ELSE <<>>)
         \o DaySlots_Strict(d, slot_start + duration_minutes, work_end,
                            duration_minutes, tzoff, min_booking_time)
    ELSE <<>>

\* the slots of one day: start_minutes + k * duration while the slot ends by
\* end_minutes, kept when not earlier than min_booking_time
RECURSIVE DaySlots(_, _, _, _, _, _)
DaySlots(d, slot_start, work_end, duration_minutes, tzoff, min_booking_time) ==
    IF slot_start + duration_minutes <= work_end
    THEN (IF Instant(TS(d, slot_start, tzoff)) >= min_booking_time
          THEN << TS(d, slot_start, tzoff) >> ELSE <<>>)
         \o DaySlots(d, slot_start + duration_minutes, work_end,
                     duration_minutes, tzoff, min_booking_time)
    ELSE <<>>

\* the day loop: from date d while midnight of d is not after end_dt
RECURSIVE SlotDays(_, _, _, _, _, _)
SlotDays(work_hours, d, end_dt, duration_minutes, tzoff, min_booking_time) ==
    IF Instant(TS(d, 0, tzoff)) <= Instant(end_dt)
    THEN LET day_slots ==
                 IF IsoWeekday(d) \in work_hours.days
                 THEN DaySlots(d, work_hours.startTime, work_hours.endTime,
                               duration_minutes, tzoff, min_booking_time)
                 ELSE <<>>
         IN  (IF day_slots # <<>>
              THEN << [date |-> d, slots |-> day_slots] >> ELSE <<>>)
             \o SlotDays(work_hours, d + 1, end_dt, duration_minutes, tzoff,
                         min_booking_time)
    ELSE <<>>

\* work_hours[key] for a key the dictionary does not have: the call raises
KeyError(key) == << [key |-> key, raised |-> "KeyError"] >>

\* generate_slots_from_schedule when datetime.now() is now_utc
SlotsAt(schedule, start_dt, end_dt, duration_minutes, tzoff, now_utc) ==
    IF schedule.workingHours = <<>> THEN <<>>
    ELSE IF "days" \notin DOMAIN schedule.workingHours[1] THEN KeyError("days")
    ELSE SlotDays(schedule.workingHours[1], AsTimezone(start_dt, tzoff).date,
                  end_dt, duration_minutes, tzoff, Instant(now_utc) + LeadMinutes)

generate_slots_from_schedule(schedule, start_dt, end_dt, duration_minutes, tzoff) ==
    SlotsAt(schedule, start_dt, end_dt, duration_minutes, tzoff, Now)

\* _ensure_iso_utc: a naive timestamp is taken as UTC
_ensure_iso_utc(dt) == IF dt.kind = "naive" THEN TS(dt.date, dt.hm, 0) ELSE dt

\* booking.get("duration", 15)
DefaultBusyMinutes == 15

\* one pass of the loop over existing_bookings: the window the record adds
\* to blocked_times, none when it has no start or the try block raises
BusyWindow(booking) ==
    IF ~TruthyTime(booking.start) THEN <<>>
    ELSE IF ~Parses(booking.start) \/ booking.duration.kind = "bad" THEN <<>>
    ELSE LET booking_duration == IF booking.duration.kind = "missing"
                                 THEN DefaultBusyMinutes ELSE booking.duration.n
         IN  << [start |-> Instant(booking.start),
                 end |-> Instant(booking.start) + booking_duration] >>

\* a variant of the loop that ends at the first record it cannot parse
blocked_times_StopAtMalformed(existing_bookings) ==
    { BusyWindow(existing_bookings[i])[1] :
        i \in { k \in 1..Len(existing_bookings) :
                  \A j \in 1..k : BusyWindow(existing_bookings[j]) # <<>> } }

\* blocked_times after the loop over existing_bookings
blocked_times(existing_bookings) ==
    { BusyWindow(existing_bookings[i])[1] :
        i \in { k \in 1..Len(existing_bookings) :
                  BusyWindow(existing_bookings[k]) # <<>> } }

\* a variant of the overlap test with closed intervals
IsBlocked_Closed(slot_dt, slot_end_dt, booking_start, booking_end) ==
    slot_dt <= booking_end /\ slot_end_dt >= booking_start

\* slot_dt < booking_end and slot_end_dt > booking_start
IsBlocked(slot_dt, slot_end_dt, booking_start, booking_end) ==
    slot_dt < booking_end /\ slot_end_dt > booking_start

\* a variant of the loop over all_slots that keeps the days left without a slot
FilterSlots_KeepEmpty(all_slots, blocked, duration_minutes) ==
    [i \in 1..Len(all_slots) |->
        [date |-> all_slots[i].date,
         slots |-> SelectSeq(all_slots[i].slots, LAMBDA slot :
                      \A w \in blocked :
                          ~IsBlocked(Instant(slot), Instant(slot) + duration_minutes,
                                     w.start, w.end))]]

\* the loop over all_slots: the slots no window of blocked blocks, by day,
\* the days left without a slot dropped
FilterSlots(all_slots, blocked, duration_minutes) ==
    LET Free(slots) ==
            SelectSeq(slots, LAMBDA slot :
                \A w \in blocked :
                    ~IsBlocked(Instant(slot), Instant(slot) + duration_minutes,
                               w.start, w.end))
        filtered == [i \in 1..Len(all_slots) |->
                        [date |-> all_slots[i].date,
                         slots |-> Free(all_slots[i].slots)]]
    IN  SelectSeq(filtered, LAMBDA day : day.slots # <<>>)

\* get_availability for timestamps that parse: the "data" of its result
get_availability(bookings, start, end, tzoff, duration_minutes, fetchOk) ==
    LET today == TS(AsTimezone(Now, 0).date, 0, 0)
        start_in == _ensure_iso_utc(start)
        end_in == _ensure_iso_utc(end)
        start_dt == IF start_in.date < today.date THEN today ELSE start_in
        end_dt == IF end_in.date > today.date + MaxDaysAhead
                  THEN TS(today.date + MaxDaysAhead, MinutesPerDay - 1, 0)
                  ELSE end_in
        all_slots == generate_slots_from_schedule(Schedule, start_dt, end_dt,
                                                  duration_minutes, tzoff)
        existing_bookings ==
            SelectSeq(get_bookings(bookings, fetchOk), LAMBDA b :
                /\ Instant(b.start) >= Instant(start_dt)
                /\ Instant(b.start) <= Instant(end_dt))
    IN  FilterSlots(all_slots, blocked_times(existing_bookings), duration_minutes)

\* the remote calls of one get_availability
AvailabilityCalls(start, end) ==
    << Call("get_first_schedule", NoneVal, NoneVal, NoTime),
       Call("get_bookings", NoneVal, NoneVal, start) >>

(***************************************************************************)
(* State of one conversation and of the remote service.                    *)
(***************************************************************************)
VARIABLES
    conversation_memo,  \* _conversation_memo: <<>> is None, else << the memo >>
    last_booking,       \* _last_booking_context
    remote,             \* the bookings the remote service holds
    dry_run,            \* CALCOM_DRY_RUN
    op,                 \* the last tool call: its name, arguments, resolution
    calls,              \* the calendar-client calls of the last tool call
    outcome,            \* the kind of answer the last tool call returned
    offered,            \* the availability data the last tool call showed
    turns,              \* the number of tool calls so far
    applied,            \* a client function called on its own: name, arguments
    returned,           \* the value that call returned
    task_context,       \* per conversation task: its Context (the ContextVars)
    memo_objects,       \* the ConversationMemo objects created so far
    frame               \* the local variables of a running generate_slots_from_schedule

vars == << conversation_memo, last_booking, remote, dry_run, op, calls,
           outcome, offered, turns, applied, returned, task_context,
           memo_objects, frame >>

\* the variables of the conversations run in parallel
task_vars == << task_context, memo_objects >>

\* the variables of the conversation and of the remote service
tool_vars == << conversation_memo, last_booking, remote, dry_run, op, calls,
                outcome, offered, turns >>

\* no call of generate_slots_from_schedule is running
NoFrame == [pc |-> "none"]

\* the conversations that run as parallel tasks
Conversations == {1, 2}

\* the Context a task starts with: no ContextVar is set, so each reads its
\* default None (memo 0 is None, otherwise the number of a memo object)
NewContext == [last_booking |-> NoLastBooking, pc |-> "idle", memo |-> 0]

\* one more tool call of the conversation
Turn == turns < MaxTurns /\ turns' = turns + 1 /\ UNCHANGED << applied, returned, task_context, memo_objects, frame >>

\* get_memo(): the current memo, a new one if there is none
get_memo == IF conversation_memo = <<>> THEN NewMemo ELSE conversation_memo[1]

\* `a or b` on Optional[str]
OrElse(a, b) == IF Truthy(a) THEN a ELSE b

Op(f, n, e, p, t, c, u, target, via) ==
    [name |-> n, phone |-> p, uid |-> u, start |-> t, email |-> e, fn |-> f,
     target |-> target, via |-> via, cur |-> c]

Init ==
    /\ conversation_memo = <<>>
    /\ last_booking = NoLastBooking
    /\ remote \in {<<>>, FamilyBookings}
    /\ dry_run \in BOOLEAN
    /\ op = Op("start", NoneVal, NoneVal, NoneVal, NoTime, NoTime, NoneVal,
               NoneVal, NoneVal)
    /\ calls = <<>>
    /\ outcome = "None"
    /\ offered = <<>>
    /\ turns = 0
    /\ applied = [fn |-> "none"]
    /\ returned = <<>>
    /\ task_context = [c \in Conversations |-> NewContext]
    /\ memo_objects = <<>>
    /\ frame = NoFrame

(***************************************************************************)
(* The remote service's side of createBooking and cancelBooking.           *)
(***************************************************************************)
\* the service can accept a booking at start: it has room, the start is a
\* timestamp, and no active booking starts at that instant
CanAccept(bookings, start) ==
    /\ Len(bookings) < MaxBookings
    /\ start.kind = "iso"
    /\ \A i \in 1..Len(bookings) :
          IsActive(bookings[i]) => Instant(bookings[i].start) # Instant(start)

\* the responses the service may give to POST /bookings
BookResponses(bookings, start) ==
    {BookConflict, BookError}
        \cup (IF CanAccept(bookings, start)
              THEN {BookOk(Uids[Len(bookings) + 1])} ELSE {})

\* the service's bookings after it answered resp to a createBooking
AfterBook(bookings, resp, start, name, email) ==
    IF resp.ok
    THEN Append(bookings, RemoteBooking(resp.uid, start, name, email, "", "accepted"))
    ELSE bookings

\* the responses the service may give to POST /bookings/uid/cancel
CancelResponses(bookings, uid) ==
    {CancelNotFound, CancelError}
        \cup (IF IndexOfUid(bookings, uid) # 0
                 /\ IsActive(bookings[IndexOfUid(bookings, uid)])
              THEN {CancelOk(uid), CancelOkBare} ELSE {})

\* the service's bookings after it answered resp to a cancelBooking
AfterCancel(bookings, resp, uid) ==
    IF resp.ok
    THEN [bookings EXCEPT ![IndexOfUid(bookings, uid)].status = "cancelled"]
    ELSE bookings

(***************************************************************************)
(* book_appointment (src/tools/appointments.py).                           *)
(***************************************************************************)
\* a variant of the identity check that looks at the email before the phone
FirstMissingField_EmailFirst(name, phone, email) ==
    IF IsBlank(name) THEN "name"
    ELSE IF IsBlank(email) THEN "email"
    ELSE IF IsBlank(phone) THEN "phone"
    ELSE "none"

\* the first of name, phone, email that is missing, "none" if all are given
FirstMissingField(name, phone, email) ==
    IF IsBlank(name) THEN "name"
    ELSE IF IsBlank(phone) THEN "phone"
    ELSE IF IsBlank(email) THEN "email"
    ELSE "none"

\* a variant of the start of book that begins from an empty memo
BookMemoStart_Reset(m, doctor, reason) ==
    LET m1 == set_action(NewMemo, "book")
        m2 == IF ~IsBlank(doctor) THEN set_preferred_doctor(m1, doctor) ELSE m1
    IN  IF ~IsBlank(reason) THEN set_appointment_reason(m2, reason) ELSE m2

\* the memo after book has recorded the action, the doctor and the reason
BookMemoStart(m, doctor, reason) ==
    LET m1 == set_action(m, "book")
        m2 == IF ~IsBlank(doctor) THEN set_preferred_doctor(m1, doctor) ELSE m1
    IN  IF ~IsBlank(reason) THEN set_appointment_reason(m2, reason) ELSE m2

\* the createBooking call book makes
CreateCall(email, sent) == Call("book_appointment", NoneVal, email, sent)

\* a variant of the re-check that queries availability a second time
RecheckCalls_Twice(start_time, schedOk) ==
    IF ~Parses(start_time) THEN <<>>
    ELSE IF ~schedOk
         THEN << Call("get_first_schedule", NoneVal, NoneVal, NoTime),
                 Call("get_first_schedule", NoneVal, NoneVal, NoTime) >>
    ELSE AvailabilityCalls(start_time, start_time)
             \o AvailabilityCalls(start_time, start_time)

\* the calls of the availability re-check after a conflict: the start time
\* must parse, then the schedule is fetched, then (if that worked) the bookings
RecheckCalls(start_time, schedOk) ==
    IF ~Parses(start_time) THEN <<>>
    ELSE IF ~schedOk THEN << Call("get_first_schedule", NoneVal, NoneVal, NoTime) >>
    ELSE AvailabilityCalls(start_time, start_time)

\* the day of start_time, from 00:00 to 23:59, as book re-queries it
DayStart(t) == [t EXCEPT !.hm = 0]
DayEnd(t) == [t EXCEPT !.hm = MinutesPerDay - 1]

\* the availability data of the re-check, <<>> when it failed
RecheckData(bookings, start_time, schedOk, fetchOk) ==
    IF ~Parses(start_time) \/ ~schedOk THEN <<>>
    ELSE get_availability(bookings, DayStart(start_time), DayEnd(start_time),
                          KolkataOffset, DefaultDuration, fetchOk)

\* the booking book stores in the memo
BookedAppointment(booking_id, name, email, phone, start_time) ==
    [name |-> name, phone |-> phone, email |-> email, id |-> booking_id,
     time |-> start_time]

BookReject(name, phone, email, doctor, reason) ==
    /\ FirstMissingField(name, phone, email) # "none"
    /\ conversation_memo' = << BookMemoStart(get_memo, doctor, reason) >>
    /\ op' = Op("book", name, email, phone, T1000, NoTime, NoneVal, NoneVal, NoneVal)
    /\ calls' = <<>>
    /\ outcome' = CASE FirstMissingField(name, phone, email) = "name" -> "AskName"
                    [] FirstMissingField(name, phone, email) = "phone" -> "AskPhone"
                    [] OTHER -> "AskEmail"
    /\ offered' = <<>>
    /\ UNCHANGED << last_booking, remote, dry_run >>

\* book with a complete identity: resp is the service's response (kind "raise"
\* when the request itself fails), dbOk whether a session row is found
BookProceed(name, start_time, phone, email, doctor, reason, sysoff, raise, resp, schedOk, fetchOk, dbOk) ==
    LET m0 == BookMemoStart(get_memo, doctor, reason)
        m1 == update_patient_email(
                  update_patient_phone(update_patient_name(m0, name), phone), email)
        sent == BookingStartSent(start_time, sysoff)
        result == book_appointment_result(dry_run, resp)
        create == << CreateCall(email, sent) >>
        theOp == Op("book", name, email, phone, start_time, NoTime, NoneVal,
                    NoneVal, NoneVal)
    IN  /\ FirstMissingField(name, phone, email) = "none"
        /\ op' = theOp
        /\ UNCHANGED dry_run
        /\ IF raise
           THEN /\ conversation_memo' = << m1 >>
                /\ calls' = create
                /\ outcome' = "Exception"
                /\ offered' = <<>>
                /\ UNCHANGED << last_booking, remote >>
           ELSE IF result.status = "error"
           THEN /\ conversation_memo' = << m1 >>
                /\ UNCHANGED << last_booking, remote >>
                /\ IF IsAvailabilityIssue(result.error)
                   THEN /\ calls' = create \o RecheckCalls(start_time, schedOk)
                        /\ offered' = RecheckData(remote, start_time, schedOk, fetchOk)
                        /\ outcome' = IF offered' # <<>> THEN "SlotAlternatives"
                                      ELSE "SlotUnavailable"
                   ELSE /\ calls' = create
                        /\ offered' = <<>>
                        /\ outcome' = "BookFailed"
           ELSE IF result.data
           THEN /\ remote' = AfterBook(remote, resp, sent, name, email)
                /\ calls' = create
                /\ offered' = <<>>
                /\ conversation_memo' =
                       << set_current_appointment(m1,
                              BookedAppointment(result.uid, name, email, phone,
                                                start_time)) >>
                /\ IF dbOk
                   THEN /\ last_booking' = LastBooking("booked", result.uid, name,
                                                       email, phone, start_time, <<>>)
                        /\ outcome' = "Booked"
                   ELSE /\ outcome' = "TechIssue"
                        /\ UNCHANGED last_booking
           ELSE /\ conversation_memo' = << m1 >>
                /\ calls' = create
                /\ offered' = <<>>
                /\ outcome' = "RawResult"
                /\ UNCHANGED << last_booking, remote >>

BookNames == {" ", "Bob"}
BookPhones == {"", "51"}
BookEmails == {NoneVal, "e1", "e2"}
BookTimes == {T1000, T1100, Naive(1, 600), BadTime}
\* the UTC offsets of the zone the server may run in
SystemOffsets == {0}

Book ==
    /\ Turn
    /\ \E name \in BookNames, phone \in BookPhones, email \in BookEmails :
        \/ BookReject(name, phone, email, "Any Available", "General Appointment")
        \/ /\ FirstMissingField(name, phone, email) = "none"
           /\ \E start_time \in BookTimes, sysoff \in SystemOffsets :
               \/ \E resp \in BookResponses(remote, BookingStartSent(start_time, sysoff)) :
                    \E schedOk \in (IF resp = BookConflict /\ ~dry_run
                                    THEN BOOLEAN ELSE {TRUE}) :
                    \E fetchOk \in (IF resp = BookConflict /\ schedOk /\ ~dry_run
                                    THEN BOOLEAN ELSE {TRUE}) :
                    \E dbOk \in (IF resp.ok /\ ~dry_run THEN BOOLEAN ELSE {TRUE}) :
                        /\ dry_run => resp = BookError
                        /\ BookProceed(name, start_time, phone, email, "Any Available",
                                       "General Appointment", sysoff, FALSE, resp,
                                       schedOk, fetchOk, dbOk)
               \/ /\ ~dry_run
                  /\ BookProceed(name, start_time, phone, email, "Any Available",
                                 "General Appointment", sysoff, TRUE, BookError,
                                 TRUE, TRUE, TRUE)

(***************************************************************************)
(* check_existing_appointments (src/tools/appointments.py).                *)
(***************************************************************************)
\* one entry of appointment_list
AppointmentEntry(booking, email) ==
    [name |-> booking.name, phone |-> booking.phone, uid |-> booking.uid,
     start |-> booking.start, email |-> email, status |-> booking.status,
     doctor |-> "Dr. Available", service |-> "General Appointment"]

AppointmentList(bookings, email) ==
    [i \in 1..Len(bookings) |-> AppointmentEntry(bookings[i], email)]

\* the memo after a lookup that found appointment_list
LookupMemoFound(m, appointment_list) ==
    LET first_appt == appointment_list[1]
        m1 == set_appointments(m, appointment_list)
        m2 == IF Truthy(first_appt.phone)
              THEN update_patient_phone(m1, first_appt.phone) ELSE m1
        m3 == set_preferred_doctor(m2, first_appt.doctor)
        m4 == set_appointment_reason(m3, first_appt.service)
    IN  IF Truthy(first_appt.name)
        THEN update_patient_name(m4, first_appt.name) ELSE m4

Lookup(patient_name, phone, email_arg, fetchOk) ==
    LET m0 == get_memo
        email == IF ~Truthy(email_arg) THEN m0.patient_email ELSE email_arg
        m1 == update_patient_email(m0, email)
        m2 == IF Truthy(phone) THEN update_patient_phone(m1, phone) ELSE m1
        bookings == find_all_bookings_by_patient_info(remote, patient_name, email,
                                                      phone, fetchOk)
        appointment_list == AppointmentList(bookings, email)
    IN  /\ op' = Op("lookup", patient_name, email_arg, phone, NoTime, NoTime,
                    NoneVal, NoneVal, NoneVal)
        /\ offered' = <<>>
        /\ UNCHANGED << remote, dry_run >>
        /\ IF ~Truthy(email)
           THEN /\ conversation_memo' = << m0 >>
                /\ calls' = <<>>
                /\ outcome' = "AskEmail"
                /\ UNCHANGED last_booking
           ELSE IF bookings = <<>>
           THEN /\ conversation_memo' = << set_appointments(m2, <<>>) >>
                /\ calls' = LookupCalls(patient_name, email)
                /\ outcome' = "NoAppointments"
                /\ UNCHANGED last_booking
           ELSE /\ conversation_memo' = << LookupMemoFound(m2, appointment_list) >>
                /\ calls' = LookupCalls(patient_name, email)
                /\ last_booking' =
                       LastBooking("found", appointment_list[1].uid,
                                   appointment_list[1].name, email,
                                   appointment_list[1].phone,
                                   appointment_list[1].start, appointment_list)
                /\ outcome' = IF Len(appointment_list) = 1 THEN "FoundOne"
                              ELSE "FoundMany"

LookupNames == {NoneVal, "Bob"}
LookupPhones == {NoneVal}
LookupEmails == {NoneVal, "e1", "e2"}

CheckExisting ==
    /\ Turn
    /\ \E patient_name \in LookupNames, phone \in LookupPhones,
       email \in LookupEmails, fetchOk \in BOOLEAN :
        Lookup(patient_name, phone, email, fetchOk)

\* ConversationMemo.clear(): self.__init__()
clear(m) == NewMemo

\* a variant of clear_memo that leaves the ContextVar as it is
clear_memo_Keep(cm) == cm

\* clear_memo(): _conversation_memo.set(None)
clear_memo(cm) == <<>>

(***************************************************************************)
(* admin_cleanup: with the password and "confirm_cleanup" it clears the    *)
(* memo (clear_memo); the last-booking reference is not touched.           *)
(***************************************************************************)
AdminCleanup ==
    /\ Turn
    /\ \E password \in {"admin123", "wrong"}, action \in {"menu", "confirm_cleanup"} :
        /\ op' = Op("admin_cleanup", NoneVal, NoneVal, NoneVal, NoTime, NoTime,
                    NoneVal, NoneVal, NoneVal)
        /\ calls' = <<>>
        /\ offered' = <<>>
        /\ UNCHANGED << last_booking, remote, dry_run >>
        /\ IF password # "admin123"
           THEN /\ outcome' = "AccessDenied"
                /\ UNCHANGED conversation_memo
           ELSE IF action = "menu"
           THEN /\ outcome' = "Menu"
                /\ UNCHANGED conversation_memo
           ELSE /\ outcome' = "CleanupDone"
                /\ conversation_memo' = clear_memo(conversation_memo)

(***************************************************************************)
(* cancel_appointment (src/tools/appointments.py).                         *)
(***************************************************************************)
\* a variant of the resolution that prefers the memo's email to the argument
ResolveCancelEmail_MemoFirst(patient_email, stored_email, lb) ==
    IF Truthy(stored_email) THEN [email |-> stored_email, via |-> "memo"]
    ELSE IF Truthy(patient_email) THEN [email |-> patient_email, via |-> "arg"]
    ELSE IF lb.kind # "none" /\ Truthy(lb.email)
         THEN [email |-> lb.email, via |-> "last"]
    ELSE [email |-> stored_email, via |-> "none"]

\* the email cancel works with and where it came from: the argument, else
\* the memo's email, else the email of the last booking
ResolveCancelEmail(patient_email, stored_email, lb) ==
    IF Truthy(patient_email) THEN [email |-> patient_email, via |-> "arg"]
    ELSE IF Truthy(stored_email) THEN [email |-> stored_email, via |-> "memo"]
    ELSE IF lb.kind # "none" /\ Truthy(lb.email)
         THEN [email |-> lb.email, via |-> "last"]
    ELSE [email |-> stored_email, via |-> "none"]

\* a variant of the recovery that finds no time in the list
TimeFromAppointments_None(all_appointments, patient_name) == NoTime

\* the start of the first listed appointment whose name is patient_name
\* (compared in lower case), NoTime if there is none
TimeFromAppointments(all_appointments, patient_name) ==
    LET hits == SelectSeq(all_appointments,
                          LAMBDA appt : Lower(appt.name) = Lower(patient_name))
    IN  IF hits = <<>> THEN NoTime ELSE hits[1].start

\* how cancel resolves the booking to cancel, before any remote cancel
CancelResolve(m, lb, bookings, patient_name, patient_email, appointment_time, phone, booking_uid, fetchOk) ==
    LET who == ResolveCancelEmail(patient_email, m.patient_email, lb)
        recovered ==
            IF /\ Truthy(patient_name) /\ ~TruthyTime(appointment_time)
               /\ lb.kind # "none" /\ lb.all_appointments # <<>>
               /\ TruthyTime(TimeFromAppointments(lb.all_appointments, patient_name))
            THEN TimeFromAppointments(lb.all_appointments, patient_name)
            ELSE appointment_time
        useLast == /\ ~Truthy(patient_name) /\ ~TruthyTime(recovered)
                   /\ ~Truthy(booking_uid) /\ lb.kind # "none"
        uid1 == IF useLast THEN lb.booking_id ELSE booking_uid
        name1 == IF useLast THEN lb.name ELSE patient_name
        time1 == IF useLast THEN lb.appointment_time ELSE recovered
        looked == Truthy(who.email) /\ TruthyTime(time1)
        booking == find_booking_by_patient_info(bookings, name1, who.email, phone,
                                                time1, fetchOk)
    IN  [name |-> name1,
         uid |-> IF ~Truthy(who.email) THEN NoneVal
                 ELSE IF looked THEN booking.uid ELSE uid1,
         email |-> who.email, time |-> time1, via |-> who.via,
         looked |-> looked, ask |-> ~Truthy(who.email),
         found |-> looked /\ booking # NoBooking]

\* the tool's test of the cancel result: only an explicit error status fails
CancelFailed(result) == result.status = "error"

CancelCall(uid) == Call("cancel_appointment", uid, NoneVal, NoTime)

\* the answer of cancel for the client's result
CancelOutcome(result) ==
    IF ~CancelFailed(result) THEN "Cancelled"
    ELSE IF IsNotFoundMessage(result.error) THEN "CancelNotFound"
    ELSE "CancelTechIssue"

\* cancel_appointment: fetchOk says whether the client's booking fetch works;
\* the remote cancel either fails as a request or is answered by the service
Cancel(patient_name, patient_email, appointment_time, phone, booking_uid, fetchOk) ==
    LET m0 == get_memo
        r == CancelResolve(m0, last_booking, remote, patient_name, patient_email,
                           appointment_time, phone, booking_uid, fetchOk)
        lookup == IF r.looked THEN LookupCalls(r.name, r.email) ELSE <<>>
    IN  /\ r.looked \/ fetchOk
        /\ op' = Op("cancel", patient_name, patient_email, phone, NoTime,
                    appointment_time, booking_uid, r.uid, r.via)
        /\ offered' = <<>>
        /\ UNCHANGED << last_booking, dry_run >>
        /\ IF r.ask
           THEN /\ conversation_memo' = << m0 >>
                /\ calls' = <<>>
                /\ outcome' = "AskEmail"
                /\ UNCHANGED remote
           ELSE /\ conversation_memo' = << update_patient_email(m0, r.email) >>
                /\ IF r.looked /\ ~r.found
                   THEN /\ calls' = lookup
                        /\ outcome' = "NotFound"
                        /\ UNCHANGED remote
                   ELSE IF ~IsBlank(r.uid)
                   THEN /\ calls' = lookup \o << CancelCall(r.uid) >>
                        /\ IF dry_run
                           THEN /\ outcome' = CancelOutcome(
                                       cancel_appointment_result(TRUE, CancelError))
                                /\ UNCHANGED remote
                           ELSE \/ /\ outcome' = "Exception"
                                   /\ UNCHANGED remote
                                \/ \E resp \in CancelResponses(remote, r.uid) :
                                     /\ remote' = AfterCancel(remote, resp, r.uid)
                                     /\ outcome' = CancelOutcome(
                                            cancel_appointment_result(FALSE, resp))
                   ELSE /\ calls' = lookup
                        /\ outcome' = "CancelHelp"
                        /\ UNCHANGED remote

CancelNames == {NoneVal, "bob"}
CancelEmails == {NoneVal, "e2"}
CancelTimes == {NoTime, T1000}
CancelUids == {NoneVal, " ", "u1"}

CancelAppointment ==
    /\ Turn
    /\ \E patient_name \in CancelNames, patient_email \in CancelEmails,
       appointment_time \in CancelTimes, booking_uid \in CancelUids,
       fetchOk \in BOOLEAN :
        Cancel(patient_name, patient_email, appointment_time, NoneVal,
               booking_uid, fetchOk)

(***************************************************************************)
(* reschedule_appointment (src/tools/appointments.py).                     *)
(***************************************************************************)
\* how reschedule resolves the booking to move, before any remote write.
\* kind is "last" (the recent booking), "lookup" (found remotely),
\* "notfound", "askemail" or "needdetails"; old_start is the "start" of the
\* resolved booking record, NoTime when the record has no such key.
RescheduleResolve(m, lb, bookings, patient_name_arg, current_appointment_time, patient_email_arg, phone_arg, fetchOk) ==
    LET patient_email == IF ~Truthy(patient_email_arg) THEN m.patient_email
                         ELSE patient_email_arg
        phone == IF ~Truthy(phone_arg) THEN m.patient_phone ELSE phone_arg
        patient_name == IF ~Truthy(patient_name_arg) THEN m.patient_name
                        ELSE patient_name_arg
        useLast == /\ ~Truthy(patient_name) \/ ~TruthyTime(current_appointment_time)
                   /\ lb.kind # "none"
                   /\ Truthy(lb.booking_id) /\ Truthy(lb.email)
        looked == ~useLast /\ Truthy(patient_email)
                      /\ TruthyTime(current_appointment_time)
        booking == find_booking_by_patient_info(bookings, patient_name,
                       patient_email, phone, current_appointment_time, fetchOk)
    IN  IF useLast
        THEN [name |-> OrElse(lb.name, patient_name),
              phone |-> OrElse(lb.phone, phone),
              kind |-> "last", uid |-> lb.booking_id,
              email |-> OrElse(lb.email, patient_email),
              cur |-> lb.appointment_time, old_start |-> NoTime]
        ELSE [name |-> patient_name, phone |-> phone,
              kind |-> IF looked
                       THEN (IF booking # NoBooking THEN "lookup" ELSE "notfound")
                       ELSE IF ~Truthy(patient_email) THEN "askemail"
                       ELSE "needdetails",
              uid |-> IF looked THEN booking.uid ELSE NoneVal,
              email |-> patient_email,
              cur |-> current_appointment_time,
              old_start |-> IF looked THEN booking.start ELSE NoTime]

\* a variant of is_cancel_error that takes every cancel result for a success
IsCancelError_Lenient(cancel_result) == cancel_result.status = "never"

\* is_cancel_error of reschedule
IsCancelError(cancel_result) ==
    \/ cancel_result.status = "error"
    \/ cancel_result.status = "DRY_RUN"
    \/ cancel_result.error # NoneVal
    \/ ~cancel_result.data /\ cancel_result.status # "cancelled"

\* the duplicate guard: the clocks of the old and the new time, each as written
IsDuplicateTime(old_time, new_start_time) ==
    /\ TruthyTime(old_time)
    /\ ClockOf(old_time) = ClockOf(new_start_time)

\* the answer for a booking that was not resolved
UnresolvedOutcome(kind) ==
    CASE kind = "notfound" -> "NotFound"
      [] kind = "askemail" -> "AskEmail"
      [] OTHER -> "NeedDetails"

\* the memo after reschedule took the identity of the recent booking
RescheduleMemo(m, r) ==
    IF r.kind = "last"
    THEN LET m1 == update_patient_name(update_patient_email(m, r.email), r.name)
         IN  IF Truthy(r.phone) THEN update_patient_phone(m1, r.phone) ELSE m1
    ELSE m

\* reschedule_appointment: fetchOk says whether the client's booking fetch
\* works, sysoff is the server's UTC offset; each remote write either fails as
\* a request or is answered by the service
Reschedule(patient_name, current_appointment_time, new_start_time, patient_email, phone, fetchOk, sysoff) ==
    LET m1 == set_action(get_memo, "reschedule")
        r == RescheduleResolve(m1, last_booking, remote, patient_name,
                               current_appointment_time, patient_email, phone,
                               fetchOk)
        parsed == TruthyTime(new_start_time) /\ Parses(new_start_time)
        lookup == IF r.kind \in {"lookup", "notfound"}
                  THEN LookupCalls(r.name, r.email) ELSE <<>>
        sent == BookingStartSent(new_start_time, sysoff)
        cancelCall == << CancelCall(r.uid) >>
        bookCall == << CreateCall(r.email, sent) >>
    IN  /\ fetchOk \/ (parsed /\ r.kind \in {"lookup", "notfound"})
        /\ op' = Op("reschedule", patient_name, patient_email, phone,
                    new_start_time, current_appointment_time, NoneVal,
                    IF parsed THEN r.uid ELSE NoneVal,
                    IF parsed THEN r.kind ELSE NoneVal)
        /\ offered' = <<>>
        /\ UNCHANGED << last_booking, dry_run >>
        /\ IF ~TruthyTime(new_start_time)
           THEN /\ conversation_memo' = << m1 >>
                /\ calls' = <<>>
                /\ outcome' = "AskNewTime"
                /\ UNCHANGED remote
           ELSE IF ~Parses(new_start_time)
           THEN /\ conversation_memo' = << m1 >>
                /\ calls' = <<>>
                /\ outcome' = "BadTimeFormat"
                /\ UNCHANGED remote
           ELSE IF r.kind \notin {"last", "lookup"}
           THEN /\ conversation_memo' = << m1 >>
                /\ calls' = lookup
                /\ outcome' = UnresolvedOutcome(r.kind)
                /\ UNCHANGED remote
           ELSE IF ~Truthy(r.uid)
           THEN /\ conversation_memo' = << RescheduleMemo(m1, r) >>
                /\ calls' = lookup
                /\ outcome' = "CannotLocate"
                /\ UNCHANGED remote
           ELSE /\ conversation_memo' = << RescheduleMemo(m1, r) >>
                /\ \/ /\ ~dry_run
                      /\ calls' = lookup \o cancelCall
                      /\ outcome' = "TechIssue"
                      /\ UNCHANGED remote
                   \/ \E cresp \in (IF dry_run THEN {CancelError}
                                    ELSE CancelResponses(remote, r.uid)) :
                        LET cancel_result == cancel_appointment_result(dry_run, cresp)
                            cancelled == IF dry_run THEN remote
                                         ELSE AfterCancel(remote, cresp, r.uid)
                        IN  IF IsCancelError(cancel_result)
                            THEN /\ calls' = lookup \o cancelCall
                                 /\ outcome' = "CancelFailed"
                                 /\ remote' = cancelled
                            ELSE IF IsDuplicateTime(r.old_start, new_start_time)
                            THEN /\ calls' = lookup \o cancelCall
                                 /\ outcome' = "DuplicateTime"
                                 /\ remote' = cancelled
                            ELSE /\ calls' = lookup \o cancelCall \o bookCall
                                 /\ \/ /\ outcome' = "TechIssue"
                                       /\ remote' = cancelled
                                    \/ \E bresp \in BookResponses(cancelled, sent) :
                                         IF book_appointment_result(dry_run, bresp).status
                                                = "error"
                                         THEN /\ outcome' = "OldCancelledNewFailed"
                                              /\ remote' = cancelled
                                         ELSE /\ outcome' = "Rescheduled"
                                              /\ remote' = AfterBook(cancelled, bresp,
                                                               sent, r.name, r.email)

RescheduleNames == {NoneVal, "Bob"}
RescheduleEmails == {NoneVal}
RescheduleCurrentTimes == {NoTime, T1030}
RescheduleNewTimes == {NoTime, BadTime, T1100, T1030, AsTimezone(T1030, 0)}

RescheduleAppointment ==
    /\ Turn
    /\ \E patient_name \in RescheduleNames, patient_email \in RescheduleEmails,
       current_appointment_time \in RescheduleCurrentTimes,
       new_start_time \in RescheduleNewTimes, fetchOk \in BOOLEAN,
       sysoff \in SystemOffsets :
        Reschedule(patient_name, current_appointment_time, new_start_time,
                   patient_email, NoneVal, fetchOk, sysoff)


(***************************************************************************)
(* get_availability, the tool (src/tools/appointments.py).                 *)
(***************************************************************************)
\* datetime.fromisoformat(s).astimezone(tz): a time without an offset is read
\* in the server's local zone (offset sysoff)
ReadLocal(t, sysoff) == IF t.kind = "naive" THEN TS(t.date, t.hm, sysoff) ELSE t

\* (end_dt - start_dt).days
DateDiff(start_dt, end_dt) == (Instant(end_dt) - Instant(start_dt)) \div MinutesPerDay

\* a variant of the weekend check that knows Sunday only
IsWeekendFastPath_SundayOnly(start, end, tzoff, sysoff) ==
    /\ Parses(start) /\ Parses(end)
    /\ DateDiff(AsTimezone(ReadLocal(start, sysoff), tzoff), AsTimezone(ReadLocal(end, sysoff), tzoff)) <= 2
    /\ IsoWeekday(AsTimezone(ReadLocal(start, sysoff), tzoff).date) \in {7}

\* the quick weekend check: both times parse, the range is at most two days
\* long and it starts on a Saturday or Sunday of the working timezone
IsWeekendFastPath(start, end, tzoff, sysoff) ==
    /\ Parses(start) /\ Parses(end)
    /\ DateDiff(AsTimezone(ReadLocal(start, sysoff), tzoff), AsTimezone(ReadLocal(end, sysoff), tzoff)) <= 2
    /\ IsoWeekday(AsTimezone(ReadLocal(start, sysoff), tzoff).date) \in {6, 7}

\* a variant of the tool that answers from the data of an earlier call
AvailabilityData_Cached(bookings, start, end, tzoff, duration_minutes, fetchOk) ==
    IF offered # <<>> THEN offered
    ELSE get_availability(bookings, start, end, tzoff, duration_minutes, fetchOk)

\* the "data" the tool gets from the client's get_availability
AvailabilityData(bookings, start, end, tzoff, duration_minutes, fetchOk) ==
    get_availability(bookings, start, end, tzoff, duration_minutes, fetchOk)

\* get_availability: schedOk and fetchOk say whether the schedule fetch and
\* the bookings fetch work
CheckAvailabilityTool(start, end, tzoff, duration_minutes, sysoff, schedOk, fetchOk) ==
    LET theOp == Op("availability", NoneVal, NoneVal, NoneVal, start, end, NoneVal, NoneVal, IF fetchOk THEN "fetched" ELSE "fetchfailed")
        data == AvailabilityData(remote, start, end, tzoff, duration_minutes, fetchOk)
    IN  /\ op' = theOp
        /\ UNCHANGED << last_booking, remote, dry_run >>
        /\ IF IsWeekendFastPath(start, end, tzoff, sysoff)
           THEN /\ conversation_memo' = << get_memo >>
                /\ calls' = <<>>
                /\ offered' = <<>>
                /\ outcome' = "Closed"
           ELSE IF ~Parses(start) \/ ~Parses(end)
           THEN /\ calls' = <<>>
                /\ offered' = <<>>
                /\ outcome' = "ValueError"
                /\ UNCHANGED conversation_memo
           ELSE IF ~schedOk
           THEN /\ calls' = << Call("get_first_schedule", NoneVal, NoneVal, NoTime) >>
                /\ offered' = <<>>
                /\ outcome' = "Exception"
                /\ UNCHANGED conversation_memo
           ELSE /\ calls' = AvailabilityCalls(start, end)
                /\ offered' = data
                /\ outcome' = IF data = <<>> THEN "NoSlots" ELSE "Slots"
                /\ UNCHANGED conversation_memo

\* the ranges asked for: a Tuesday, a Saturday, Saturday to Monday, and a
\* start that does not parse
AvailabilityRanges ==
    { << TS(1, 0, 0), TS(1, MinutesPerDay - 1, 0) >>,
      << TS(5, 0, KolkataOffset), TS(5, MinutesPerDay - 1, KolkataOffset) >>,
      << TS(5, 0, KolkataOffset), TS(7, MinutesPerDay - 1, KolkataOffset) >>,
      << BadTime, TS(1, MinutesPerDay - 1, 0) >> }

CheckAvailability ==
    /\ Turn
    /\ \E range \in AvailabilityRanges, sysoff \in SystemOffsets, schedOk \in BOOLEAN, fetchOk \in BOOLEAN :
        /\ fetchOk \/ (schedOk /\ Parses(range[1]) /\ ~IsWeekendFastPath(range[1], range[2], KolkataOffset, sysoff))
        /\ schedOk \/ (Parses(range[1]) /\ ~IsWeekendFastPath(range[1], range[2], KolkataOffset, sysoff))
        /\ CheckAvailabilityTool(range[1], range[2], KolkataOffset, DefaultDuration, sysoff, schedOk, fetchOk)

Next == Book \/ CheckExisting \/ CancelAppointment \/ RescheduleAppointment
            \/ AdminCleanup \/ CheckAvailability

Spec == Init /\ [][Next]_vars

(***************************************************************************)
(* The functions of the calendar client and of the memo called on their    *)
(* own, as any caller may: the arguments are drawn from bounded sets.      *)
(***************************************************************************)
Applied(f, a) == [fn |-> f, args |-> a]

\* no client function has been called on its own yet
Fresh == applied.fn = "none"

\* the working-hours rules a schedule may carry
Rules ==
    { [days |-> {1, 2, 3, 4, 5}, startTime |-> 10 * 60, endTime |-> 14 * 60],
      [days |-> {6, 7}, startTime |-> 9 * 60, endTime |-> 10 * 60],
      [days |-> {1, 3}, startTime |-> 9 * 60 + 30, endTime |-> 12 * 60 + 5],
      [days |-> {2}, startTime |-> 14 * 60, endTime |-> 10 * 60] }

\* a rule whose "days" is empty and a rule that has no "days"
RuleNoDays == [days |-> {}, startTime |-> 10 * 60, endTime |-> 14 * 60]
RuleDaysAbsent == [startTime |-> 10 * 60, endTime |-> 14 * 60]

Schedules == { [workingHours |-> << r >>] : r \in Rules \cup {RuleNoDays, RuleDaysAbsent} } \cup { [workingHours |-> <<>>] }

\* the ranges slots are asked for
SlotRanges ==
    { << TS(0, 0, 0), TS(0, MinutesPerDay - 1, 0) >>,
      << TS(0, 12 * 60, KolkataOffset), TS(2, 8 * 60, KolkataOffset) >>,
      << TS(4, 0, 0), TS(7, MinutesPerDay - 1, 0) >> }

SlotDurations == {15, 30, 45}

\* the values of datetime.now()
Clocks == { Now, TS(0, 11 * 60 + 5, KolkataOffset), TS(1, 8 * 60 + 15, 0) }

\* generate_slots_from_schedule(schedule, start_dt, end_dt, duration, tz)
GenerateSlots ==
    \E schedule \in Schedules, range \in SlotRanges, d \in SlotDurations, tzoff \in {0, KolkataOffset}, now_utc \in Clocks :
        /\ Fresh
        /\ applied' = Applied("generate_slots_from_schedule",
                              [duration_minutes |-> d, tzoff |-> tzoff,
                               end_dt |-> range[2], schedule |-> schedule,
                               start_dt |-> range[1], now |-> now_utc])
        /\ returned' = SlotsAt(schedule, range[1], range[2], d, tzoff, now_utc)
        /\ UNCHANGED << tool_vars, task_vars, frame >>

\* the booking records GET /bookings may return: well formed, without a
\* "duration" key, without a start, with a start that does not parse, with
\* a duration that is no number, and one that takes the whole of Tuesday
BusyRecords ==
    { [start |-> AsTimezone(T1030, 0), duration |-> JsonInt(30)],
      [start |-> TS(1, 10 * 60, KolkataOffset), duration |-> JsonInt(4 * 60)],
      [start |-> TS(1, 10 * 60 + 15, KolkataOffset), duration |-> MissingKey],
      [start |-> T1100, duration |-> JsonInt(45)],
      [start |-> NoTime, duration |-> JsonInt(30)],
      [start |-> BadTime, duration |-> JsonInt(30)],
      [start |-> T1100, duration |-> Malformed] }

BusyLists ==
    {<<>>} \cup { << a >> : a \in BusyRecords }
           \cup { << a, b >> : a \in BusyRecords, b \in BusyRecords }

\* the part of get_availability after the two fetches: all_slots filtered
\* against existing_bookings
FilterBooked ==
    \E existing_bookings \in BusyLists, d \in {15, 30}, last \in {1, 2} :
        LET all_slots == SlotsAt(Schedule, TS(1, 0, KolkataOffset), TS(last, MinutesPerDay - 1, KolkataOffset), d, KolkataOffset, Now)
        IN  /\ Fresh
            /\ applied' = Applied("get_availability",
                                  [duration_minutes |-> d,
                                   existing_bookings |-> existing_bookings,
                                   all_slots |-> all_slots])
            /\ returned' = [status |-> "success",
                            data |-> FilterSlots(all_slots, blocked_times(existing_bookings), d)]
            /\ UNCHANGED << tool_vars, task_vars, frame >>

\* the arguments the two lookups are called with
FindNames == {NoneVal, "", "Ann Lee", "ann", "Bob"}
FindEmails == {NoneVal, "e1", "e2"}
FindPhones == {NoneVal, "51", "9"}
FindTimes == {NoTime, T1000, T1100, BadTime}

\* find_booking_by_patient_info(patient_name, patient_email, patient_phone,
\* appointment_time)
FindOne ==
    \E patient_name \in FindNames, patient_email \in FindEmails, patient_phone \in FindPhones, appointment_time \in FindTimes, fetchOk \in BOOLEAN :
        /\ Fresh
        /\ applied' = Applied("find_booking_by_patient_info",
                              [patient_email |-> patient_email,
                               patient_name |-> patient_name,
                               patient_phone |-> patient_phone,
                               appointment_time |-> appointment_time,
                               fetchOk |-> fetchOk])
        /\ returned' = [calls |-> LookupCalls(patient_name, patient_email),
                        value |-> find_booking_by_patient_info(remote, patient_name, patient_email, patient_phone, appointment_time, fetchOk)]
        /\ UNCHANGED << tool_vars, task_vars, frame >>

\* find_all_bookings_by_patient_info(patient_name, patient_email,
\* patient_phone)
FindAll ==
    \E patient_name \in FindNames, patient_email \in FindEmails, patient_phone \in FindPhones, fetchOk \in BOOLEAN :
        /\ Fresh
        /\ applied' = Applied("find_all_bookings_by_patient_info",
                              [patient_email |-> patient_email,
                               patient_name |-> patient_name,
                               patient_phone |-> patient_phone,
                               appointment_time |-> NoTime,
                               fetchOk |-> fetchOk])
        /\ returned' = [calls |-> LookupCalls(patient_name, patient_email),
                        value |-> find_all_bookings_by_patient_info(remote, patient_name, patient_email, patient_phone, fetchOk)]
        /\ UNCHANGED << tool_vars, task_vars, frame >>

\* the setters of ConversationMemo
Setters ==
    { "update_patient_email", "update_patient_name", "update_patient_phone",
      "set_appointments", "set_current_appointment", "set_action",
      "set_preferred_doctor", "set_appointment_reason" }

\* memo.<setter>(value)
CallSetter(setter, m, value) ==
    CASE setter = "update_patient_email" -> update_patient_email(m, value)
      [] setter = "update_patient_name" -> update_patient_name(m, value)
      [] setter = "update_patient_phone" -> update_patient_phone(m, value)
      [] setter = "set_appointments" -> set_appointments(m, value)
      [] setter = "set_current_appointment" -> set_current_appointment(m, value)
      [] setter = "set_action" -> set_action(m, value)
      [] setter = "set_preferred_doctor" -> set_preferred_doctor(m, value)
      [] setter = "set_appointment_reason" -> set_appointment_reason(m, value)

\* a memo that holds a value in every field
PopulatedMemo ==
    [patient_email |-> "e1", patient_name |-> "Bob", patient_phone |-> "5-1",
     preferred_doctor |-> "Dr. Available",
     appointment_reason |-> "General Appointment",
     appointments |-> AppointmentList(FamilyBookings, "e1"),
     current_appointment |-> [name |-> "Bob", phone |-> NoneVal, email |-> "e1",
                              id |-> "u2", time |-> T1030],
     action |-> "book"]

\* the values a setter is called with: None, empty, and non-empty ones
SetterValues(setter) ==
    CASE setter = "set_appointments" ->
             { <<>>, AppointmentList(SubSeq(FamilyBookings, 1, 1), "e1") }
      [] setter = "set_current_appointment" ->
             { NoAppointment,
               [name |-> "Ann Lee", phone |-> "5-1", email |-> "e1",
                id |-> "u1", time |-> T1000] }
      [] OTHER -> { NoneVal, "", " ", "Ann Lee", "e2" }

\* one setter called once, and called a second time with the same value
SetMemoField ==
    \E setter \in Setters, m \in {NewMemo, PopulatedMemo} :
        \E value \in SetterValues(setter) :
            /\ Fresh
            /\ applied' = Applied(setter, [memo |-> m, value |-> value])
            /\ returned' = [once |-> CallSetter(setter, m, value),
                            twice |-> CallSetter(setter, CallSetter(setter, m, value), value)]
            /\ UNCHANGED << tool_vars, task_vars, frame >>

ClientNext == GenerateSlots \/ FilterBooked \/ FindOne \/ FindAll \/ SetMemoField

\* the bookings the service may hold when the client is called
ClientRemotes ==
    { <<>>, FamilyBookings,
      FamilyBookings \o << RemoteBooking("u3", AsTimezone(T1100, 0), "Ann Lee", "e2", "5-1", "accepted") >>,
      << RemoteBooking("u1", AsTimezone(T1000, 0), "Ann Lee", "e1", "5-1", "cancelled"),
         RemoteBooking("u2", AsTimezone(T1030, 0), "Bob", "e1", "", "accepted"),
         RemoteBooking("u3", AsTimezone(T1000, 0), "Ann Lee", "e1", "5-1", "accepted") >> }

ClientInit ==
    /\ conversation_memo = <<>>
    /\ last_booking = NoLastBooking
    /\ remote \in ClientRemotes
    /\ dry_run \in BOOLEAN
    /\ op = Op("start", NoneVal, NoneVal, NoneVal, NoTime, NoTime, NoneVal,
               NoneVal, NoneVal)
    /\ calls = <<>>
    /\ outcome = "None"
    /\ offered = <<>>
    /\ turns = 0
    /\ applied = [fn |-> "none"]
    /\ returned = <<>>
    /\ task_context = [c \in Conversations |-> NewContext]
    /\ memo_objects = <<>>
    /\ frame = NoFrame

ClientSpec == ClientInit /\ [][ClientNext]_vars

(***************************************************************************)
(* Conversations in parallel.  Each is a task with its own Context; the    *)
(* memo and the last-booking reference are ContextVars, and the memo is an *)
(* object the ContextVar refers to.  A step is one ContextVar operation,   *)
(* so every interleaving of the tasks' operations is a behaviour.          *)
(***************************************************************************)
\* a variant of ContextVar.set that writes one variable shared by all tasks
ContextSet_Global(contexts, c, var, value) ==
    [d \in Conversations |-> [contexts[d] EXCEPT ![var] = value]]

\* ContextVar.set(value) run in the task of conversation c
ContextSet(contexts, c, var, value) ==
    [contexts EXCEPT ![c] = [@ EXCEPT ![var] = value]]

\* ContextVar.get() run in the task of conversation c
ContextGet(contexts, c, var) == contexts[c][var]

\* the step taken: the tool_vars, applied and returned record nothing else
Acted(f, c) ==
    /\ applied' = [fn |-> f, conv |-> c]
    /\ UNCHANGED << tool_vars, returned, frame >>

\* dental_clinic_agent starts: initialize_memo() puts a new memo object in
\* the task's context
StartTask(c) ==
    /\ task_context[c].pc = "idle"
    /\ Len(memo_objects) < MaxObjects
    /\ memo_objects' = Append(memo_objects, NewMemo)
    /\ task_context' = ContextSet([task_context EXCEPT ![c].pc = "running"],
                                  c, "memo", Len(memo_objects) + 1)
    /\ Acted("initialize_memo", c)

\* a tool of conversation c calls get_memo() and one setter of the memo
TaskSetField(c) ==
    /\ task_context[c].pc = "running"
    /\ \E setter \in {"update_patient_email"}, value \in {"e1", "e2"} :
          IF ContextGet(task_context, c, "memo") = 0
          THEN /\ Len(memo_objects) < MaxObjects
               /\ memo_objects' = Append(memo_objects, CallSetter(setter, NewMemo, value))
               /\ task_context' = ContextSet(task_context, c, "memo", Len(memo_objects) + 1)
          ELSE /\ memo_objects' =
                      [memo_objects EXCEPT ![ContextGet(task_context, c, "memo")] =
                          CallSetter(setter, @, value)]
               /\ UNCHANGED task_context
    /\ Acted("get_memo", c)

\* a tool of conversation c stores the last-booking reference
TaskSetLastBooking(c) ==
    /\ task_context[c].pc = "running"
    /\ \E u \in {"u1", "u2"} :
          task_context' = ContextSet(task_context, c, "last_booking",
                              LastBooking("booked", u, "Bob", "e1", NoneVal, T1000, <<>>))
    /\ UNCHANGED memo_objects
    /\ Acted("_last_booking_context.set", c)

\* clear_memo() in conversation c: by admin_cleanup, or when the agent ends
TaskClearMemo(c) ==
    /\ task_context[c].pc = "running"
    /\ \E ends \in BOOLEAN :
          task_context' = ContextSet([task_context EXCEPT ![c].pc =
                                         IF ends THEN "done" ELSE "running"],
                                     c, "memo", 0)
    /\ UNCHANGED memo_objects
    /\ Acted("clear_memo", c)

ParallelNext ==
    \E c \in Conversations :
        \/ StartTask(c)
        \/ TaskSetField(c)
        \/ TaskSetLastBooking(c)
        \/ TaskClearMemo(c)

\* no conversation has started; the remote service plays no part
ParallelInit ==
    /\ conversation_memo = <<>>
    /\ last_booking = NoLastBooking
    /\ remote = <<>>
    /\ dry_run = FALSE
    /\ op = Op("start", NoneVal, NoneVal, NoneVal, NoTime, NoTime, NoneVal,
               NoneVal, NoneVal)
    /\ calls = <<>>
    /\ outcome = "None"
    /\ offered = <<>>
    /\ turns = 0
    /\ applied = [fn |-> "none"]
    /\ returned = <<>>
    /\ task_context = [c \in Conversations |-> NewContext]
    /\ memo_objects = <<>>
    /\ frame = NoFrame

ParallelSpec == ParallelInit /\ [][ParallelNext]_vars

(***************************************************************************)
(* generate_slots_from_schedule step by step: the day loop and, inside a   *)
(* working day, the slot loop (src/services/calcom.py).                    *)
(***************************************************************************)
\* the most slots of a day the frame records: later appends are not recorded
MaxDaySlots == 24

\* how far before midnight of the day a datetime can go, in minutes:
\* slot_start + timedelta below datetime.min raises OverflowError
MaxBackMinutes == 60

\* the durations the availability tool passes on: it validates none
LoopDurations == {-30, 0, 30, 45}

\* the frame after the lines before the day loop: current_dt_tz is midnight
\* of the start's date in the target timezone
StartFrame(rule, start_dt, end_dt, duration_minutes, tzoff, now_utc) ==
    [slot_start |-> 0, duration_minutes |-> duration_minutes, tzoff |-> tzoff,
     min_booking_time |-> Instant(now_utc) + LeadMinutes, work_hours |-> rule,
     end_dt |-> end_dt, day_slots |-> <<>>, pc |-> "day",
     current_dt |-> AsTimezone(start_dt, tzoff).date, slots_by_date |-> <<>>]

\* one test of `while current_dt_tz <= end_dt_tz`: leave the loop, enter the
\* slot loop of a working day, or go on to the next day
DayLoop ==
    /\ frame.pc = "day"
    /\ frame' =
         IF Instant(TS(frame.current_dt, 0, frame.tzoff)) > Instant(frame.end_dt)
         THEN [frame EXCEPT !.pc = "done"]
         ELSE IF IsoWeekday(frame.current_dt) \in frame.work_hours.days
         THEN [frame EXCEPT !.pc = "slot", !.slot_start = frame.work_hours.startTime,
                            !.day_slots = <<>>]
         ELSE [frame EXCEPT !.current_dt = @ + 1]
    /\ UNCHANGED << tool_vars, task_vars, applied, returned >>

\* one test of `while slot_start + duration <= work_end`: enter the body,
\* raise when the sum is below datetime.min, or leave the loop, store the
\* day when it has slots and go on to the next day
SlotTest ==
    /\ frame.pc = "slot"
    /\ LET next_start == frame.slot_start + frame.duration_minutes
       IN  frame' =
             IF next_start < 0 - MaxBackMinutes
             THEN [frame EXCEPT !.pc = "raised"]
             ELSE IF next_start <= frame.work_hours.endTime
             THEN [frame EXCEPT !.pc = "body"]
             ELSE [frame EXCEPT
                       !.pc = "day",
                       !.slots_by_date =
                           IF frame.day_slots # <<>>
                           THEN Append(@, [date |-> frame.current_dt,
                                           slots |-> frame.day_slots])
                           ELSE @,
                       !.current_dt = @ + 1]
    /\ UNCHANGED << tool_vars, task_vars, applied, returned >>

\* the body of the slot loop: append the slot when it is not earlier than
\* min_booking_time, then slot_start += duration
SlotBody ==
    /\ frame.pc = "body"
    /\ LET kept == Instant(TS(frame.current_dt, frame.slot_start, frame.tzoff))
                       >= frame.min_booking_time
       IN  frame' = [frame EXCEPT
               !.pc = "slot",
               !.day_slots = IF kept /\ Len(@) < MaxDaySlots
                             THEN Append(@, frame.slot_start) ELSE @,
               !.slot_start = @ + frame.duration_minutes]
    /\ UNCHANGED << tool_vars, task_vars, applied, returned >>

LoopNext == DayLoop \/ SlotTest \/ SlotBody

LoopInit ==
    /\ conversation_memo = <<>>
    /\ last_booking = NoLastBooking
    /\ remote = <<>>
    /\ dry_run = FALSE
    /\ op = Op("start", NoneVal, NoneVal, NoneVal, NoTime, NoTime, NoneVal,
               NoneVal, NoneVal)
    /\ calls = <<>>
    /\ outcome = "None"
    /\ offered = <<>>
    /\ turns = 0
    /\ applied = [fn |-> "none"]
    /\ returned = <<>>
    /\ task_context = [c \in Conversations |-> NewContext]
    /\ memo_objects = <<>>
    /\ \E rule \in Rules, range \in SlotRanges, d \in LoopDurations :
          frame = StartFrame(rule, range[1], range[2], d, KolkataOffset, Now)

\* the interpreter goes on executing a loop that can take a step
LoopSpec == LoopInit /\ [][LoopNext]_vars /\ WF_vars(LoopNext)

(***************************************************************************)
(* Properties.  The helpers read the state the way a caller would: the     *)
(* memo of a conversation-memo value, and the remote calls of the last     *)
(* tool call by name.                                                      *)
(***************************************************************************)
MemoOf(cm) == IF cm = <<>> THEN NewMemo ELSE cm[1]

CancelCallsMade == CallsOf(calls, "cancel_appointment")
CreateCallsMade == CallsOf(calls, "book_appointment")

\* the status the service holds for the booking uid, NoneVal if it has none
RemoteStatus(bookings, uid) ==
    IF IndexOfUid(bookings, uid) = 0 THEN NoneVal
    ELSE bookings[IndexOfUid(bookings, uid)].status

\* C1: after a reschedule whose cancel of the old booking succeeded and whose
\* booking of the new time failed, neither the last-booking reference nor the
\* memo's current appointment still names the cancelled booking, and a cancel
\* or a reschedule without identity arguments does not resolve to it.
C1_NoStaleReference ==
    outcome = "OldCancelledNewFailed" =>
        /\ last_booking.booking_id # op.target
        /\ get_memo.current_appointment.id # op.target
        /\ CancelResolve(get_memo, last_booking, remote, NoneVal, NoneVal, NoTime,
                         NoneVal, NoneVal, TRUE).uid # op.target
        /\ RescheduleResolve(get_memo, last_booking, remote, NoneVal, NoTime,
                             NoneVal, NoneVal, TRUE).uid # op.target

C3_DuplicateGuardBeforeRemote ==
    /\ outcome = "DuplicateTime" =>
          /\ CancelCallsMade = <<>> /\ CreateCallsMade = <<>>
          /\ RemoteStatus(remote, op.target) = "accepted"
    /\ (/\ op.fn = "reschedule" /\ op.via \in {"last", "lookup"}
        /\ CancelCallsMade # <<>>
        /\ IndexOfUid(remote, op.target) # 0
        /\ Instant(remote[IndexOfUid(remote, op.target)].start) = Instant(op.start))
          => outcome = "DuplicateTime"

\* C4: in every state, for the same identity arguments, cancel and reschedule
\* resolve to the same booking uid whenever both resolve to one.
C4_SameTargetAsCancel ==
    \A n \in {NoneVal, "Bob", "Ann Lee"}, e \in {NoneVal, "e1"},
       c \in {NoTime, T1000, T1030} :
        LET cr == CancelResolve(get_memo, last_booking, remote, n, e, c, NoneVal,
                                NoneVal, TRUE)
            rr == RescheduleResolve(set_action(get_memo, "reschedule"),
                                    last_booking, remote, n, c, e, NoneVal, TRUE)
        IN  (Truthy(cr.uid) /\ Truthy(rr.uid)) => cr.uid = rr.uid

\* C5: a book call with a missing name, phone or email asks for the first
\* missing one in the order name, phone, email and makes no remote call; with
\* all three given it makes exactly one createBooking call.
C5_AsksFirstMissingField ==
    /\ op.fn = "book" =>
          /\ IsBlank(op.name) => outcome = "AskName" /\ calls = <<>>
          /\ (~IsBlank(op.name) /\ IsBlank(op.phone))
                => outcome = "AskPhone" /\ calls = <<>>
          /\ (~IsBlank(op.name) /\ ~IsBlank(op.phone) /\ IsBlank(op.email))
                => outcome = "AskEmail" /\ calls = <<>>
          /\ (~IsBlank(op.name) /\ ~IsBlank(op.phone) /\ ~IsBlank(op.email))
                => /\ Len(CreateCallsMade) = 1
                   /\ outcome \notin {"AskName", "AskPhone", "AskEmail"}
    /\ \A n \in {NoneVal, "", " ", "Bob"}, p \in {NoneVal, "", " ", "51"},
          e \in {NoneVal, "", " ", "e1"} :
          FirstMissingField(n, p, e) =
              IF n # "Bob" THEN "name" ELSE IF p # "51" THEN "phone"
              ELSE IF e # "e1" THEN "email" ELSE "none"

\* C5 witness: a book call with a name but neither phone nor email was asked
\* for the phone and called nothing
C5_Witness ==
    /\ op.fn = "book" /\ ~IsBlank(op.name) /\ IsBlank(op.phone) /\ IsBlank(op.email)
    /\ outcome = "AskPhone" /\ calls = <<>>

C7_MemoHoldsNewBooking ==
    [][op'.fn = "book" =>
        IF Len(remote') = Len(remote) + 1
        THEN /\ MemoOf(conversation_memo').current_appointment =
                    [name |-> op'.name, phone |-> op'.phone,
                     email |-> op'.email, id |-> remote'[Len(remote')].uid,
                     time |-> op'.start]
             /\ remote'[Len(remote')].name = op'.name
             /\ remote'[Len(remote')].email = op'.email
             /\ outcome' \in {"Booked", "TechIssue"}
        ELSE /\ MemoOf(conversation_memo').current_appointment =
                    MemoOf(conversation_memo).current_appointment
             /\ outcome' \notin {"Booked", "TechIssue"}]_vars

\* C7 witness: a booked appointment is the memo's current appointment
C7_Witness ==
    /\ op.fn = "book" /\ outcome = "Booked" /\ remote # <<>>
    /\ get_memo.current_appointment.id = remote[Len(remote)].uid
    /\ get_memo.current_appointment.time = op.start

C9_EmailResolutionOrder ==
    [][op'.fn = "cancel" =>
        LET arg == op'.email
            stored == MemoOf(conversation_memo).patient_email
            recent == IF last_booking.kind # "none" THEN last_booking.email
                      ELSE NoneVal
            used == MemoOf(conversation_memo').patient_email
            lookups == CallsOf(calls', "get_bookings_by_email")
        IN  /\ Truthy(arg) => used = arg /\ op'.via = "arg"
            /\ (~Truthy(arg) /\ Truthy(stored)) => used = stored /\ op'.via = "memo"
            /\ (~Truthy(arg) /\ ~Truthy(stored) /\ Truthy(recent))
                  => used = recent /\ op'.via = "last"
            /\ (~Truthy(arg) /\ ~Truthy(stored) /\ ~Truthy(recent))
                  => outcome' = "AskEmail" /\ calls' = <<>> /\ remote' = remote
            /\ \A i \in 1..Len(lookups) : lookups[i].email = used
            /\ outcome' = "AskEmail" => calls' = <<>>]_vars

\* C9 witness: a cancel without an email, with an empty memo, worked with the
\* email of the last booking
C9_Witness ==
    /\ op.fn = "cancel" /\ op.via = "last" /\ ~Truthy(op.email)
    /\ get_memo.patient_email = last_booking.email
    /\ outcome # "AskEmail"

\* C10: a cancel with a booking_uid and no appointment time makes the remote
\* cancel call for that uid, whether or not an email is available.
C10_UidAloneCancels ==
    (op.fn = "cancel" /\ ~IsBlank(op.uid) /\ ~TruthyTime(op.cur)
        /\ ~Truthy(op.name))
        => /\ outcome # "AskEmail"
           /\ \E i \in 1..Len(calls) : calls[i] = CancelCall(op.uid)

\* the answers POST /bookings/uid/cancel is compared against in C11: the
\* modelled ones and a 2xx answer whose status is neither absent nor cancelled
CancelAnswersConsidered ==
    {CancelOk("u1"), CancelOkBare, CancelNotFound, CancelError,
     Http(TRUE, "pending", TRUE, "pending", "u1", NoneVal)}

\* C11: cancel reports a successful cancellation only for a result whose
\* status reflects a cancelled state or that has no status field: a reported
\* success means the service holds the booking as cancelled, and for every
\* answer of the service, in the current mode, a success is reported only if
\* the answer's data status is cancelled or the answer has no status.
C11_SuccessOnlyWhenCancelled ==
    (op.fn = "cancel" /\ CancelCallsMade # <<>>) =>
        /\ outcome = "Cancelled" => RemoteStatus(remote, op.target) = "cancelled"
        /\ \A resp \in CancelAnswersConsidered :
              CancelOutcome(cancel_appointment_result(dry_run, resp)) = "Cancelled"
                  => /\ ~dry_run /\ resp.ok
                     /\ resp.dataStatus = "cancelled" \/ resp.status = NoneVal

\* the range from start to end, in the working timezone, is not empty and
\* every date of it is a Saturday or a Sunday
OnlyWeekendDays(start, end) ==
    /\ Instant(start) <= Instant(end)
    /\ \A d \in AsTimezone(start, KolkataOffset).date .. AsTimezone(end, KolkataOffset).date :
          IsoWeekday(d) \in {6, 7}

\* C12: an availability request whose range covers only Saturdays and
\* Sundays is answered with the closed explanation and makes no remote call;
\* the quick check recognises every such range.
C12_WeekendShortCircuit ==
    /\ (op.fn = "availability" /\ Parses(op.start) /\ Parses(op.cur)
          /\ OnlyWeekendDays(op.start, op.cur))
          => outcome = "Closed" /\ calls = <<>> /\ offered = <<>>
    /\ \A d1 \in {5, 6}, d2 \in {5, 6}, m1 \in {0, 600}, m2 \in {700, MinutesPerDay - 1},
          o1 \in {0, KolkataOffset}, o2 \in {0, KolkataOffset} :
          OnlyWeekendDays(TS(d1, m1, o1), TS(d2, m2, o2))
              => IsWeekendFastPath(TS(d1, m1, o1), TS(d2, m2, o2), KolkataOffset, 0)

\* C12 witness: a request for one Saturday was answered as closed, no calls
C12_Witness ==
    /\ op.fn = "availability" /\ outcome = "Closed" /\ calls = <<>>
    /\ op.start = TS(5, 0, KolkataOffset)
    /\ op.cur = TS(5, MinutesPerDay - 1, KolkataOffset)

\* C13: an availability request that is not short-circuited fetches the
\* schedule and then the bookings, and when both fetches work its data are
\* the slots computed from the bookings the service holds at that moment,
\* whatever an earlier call returned.
C13_FreshRead ==
    [][(op'.fn = "availability" /\ outcome' \in {"Slots", "NoSlots"}) =>
          /\ Len(calls') = 2
          /\ calls'[1].fn = "get_first_schedule" /\ calls'[2].fn = "get_bookings"
          /\ op'.via = "fetched" =>
                /\ offered' = get_availability(remote', op'.start, op'.cur, KolkataOffset, DefaultDuration, TRUE)
                /\ \A i \in 1..Len(offered'), k \in 1..Len(remote') :
                      \A j \in 1..Len(offered'[i].slots) :
                          IsActive(remote'[k]) =>
                              Instant(offered'[i].slots[j]) # Instant(remote'[k].start)]_vars

\* C13 witness: after a booking at 11:00 an availability request returned
\* slots of that day without the 11:00 slot
C13_Witness ==
    /\ op.fn = "availability" /\ outcome = "Slots" /\ op.via = "fetched"
    /\ \E k \in 1..Len(remote) :
          IsActive(remote[k]) /\ Instant(remote[k].start) = Instant(T1100)
    /\ \E i \in 1..Len(offered) :
          /\ offered[i].date = T1100.date
          /\ \A j \in 1..Len(offered[i].slots) :
                Instant(offered[i].slots[j]) # Instant(T1100)
          /\ \E j \in 1..Len(offered[i].slots) : offered[i].slots[j] = TS(1, 690, KolkataOffset)

\* the slot generator was called and returned a mapping
GeneratorReturned ==
    /\ applied.fn = "generate_slots_from_schedule"
    /\ \/ applied.args.schedule.workingHours = <<>>
       \/ "days" \in DOMAIN applied.args.schedule.workingHours[1]

\* C14: every slot the slot generator returns is on a day whose ISO weekday
\* is one of the rule's days, starts at or after the rule's start minute,
\* ends (start + duration) at or before the rule's end minute, and starts
\* no earlier than now + 10 minutes.
C14_SlotsWithinRule ==
    GeneratorReturned =>
        \A i \in 1..Len(returned) :
            \A j \in 1..Len(returned[i].slots) :
                LET slot == returned[i].slots[j]
                    rule == applied.args.schedule.workingHours[1]
                IN  /\ IsoWeekday(slot.date) \in rule.days
                    /\ slot.date = returned[i].date
                    /\ slot.hm >= rule.startTime
                    /\ slot.hm + applied.args.duration_minutes <= rule.endTime
                    /\ Instant(slot) >= Instant(applied.args.now) + 10

\* C14 witness: the generator returned slots of two days, the first of them
\* the day of "now" with its first slots dropped by the lead time
C14_Witness ==
    /\ applied.fn = "generate_slots_from_schedule"
    /\ Len(returned) >= 2
    /\ returned[1].date = AsTimezone(applied.args.now, applied.args.tzoff).date
    /\ returned[1].slots[1].hm > applied.args.schedule.workingHours[1].startTime

\* the busy intervals of the records that have a start that parses and a
\* duration that is a number or absent
WellFormedWindows(bookings) ==
    { [start |-> Instant(bookings[i].start),
       end |-> Instant(bookings[i].start)
                 + (IF bookings[i].duration.kind = "int"
                    THEN bookings[i].duration.n ELSE 15)] :
        i \in { k \in 1..Len(bookings) :
                  /\ bookings[k].start.kind \in {"iso", "naive"}
                  /\ bookings[k].duration.kind \in {"int", "missing"} } }

\* the slot [slot, slot + d) and the interval w intersect, both half open
Overlaps(slot, d, w) == Instant(slot) < w.end /\ Instant(slot) + d > w.start

\* slot is one of the slots of data
Shown(data, slot) ==
    \E k \in 1..Len(data) : \E j \in 1..Len(data[k].slots) : data[k].slots[j] = slot

\* C15: the availability filter excludes a slot exactly when its interval
\* [start, start + duration) overlaps some busy interval under half-open
\* intersection; a slot that starts when a busy interval ends, or ends when
\* one starts, is retained, and the retained slots keep their order.
C15_HalfOpenOverlap ==
    applied.fn = "get_availability" =>
        LET a == applied.args
            W == WellFormedWindows(a.existing_bookings)
            Kept(slots) == SelectSeq(slots, LAMBDA slot :
                               \A w \in W : ~Overlaps(slot, a.duration_minutes, w))
        IN  /\ \A i \in 1..Len(a.all_slots) :
                  IF Kept(a.all_slots[i].slots) = <<>>
                  THEN \A k \in 1..Len(returned.data) :
                          returned.data[k].date # a.all_slots[i].date
                  ELSE \E k \in 1..Len(returned.data) :
                          /\ returned.data[k].date = a.all_slots[i].date
                          /\ returned.data[k].slots = Kept(a.all_slots[i].slots)
            /\ \A k \in 1..Len(returned.data) :
                  \E i \in 1..Len(a.all_slots) :
                      returned.data[k].date = a.all_slots[i].date
            /\ \A i \in 1..Len(a.all_slots) :
                  \A j \in 1..Len(a.all_slots[i].slots) :
                      LET slot == a.all_slots[i].slots[j]
                      IN  (\A w \in W :
                              \/ Instant(slot) >= w.end
                              \/ Instant(slot) + a.duration_minutes <= w.start)
                              => Shown(returned.data, slot)

\* C15 witness: with one busy interval 10:30-11:00 and 30-minute slots the
\* 10:00 and the 11:00 slot are shown and the 10:30 slot is not
C15_Witness ==
    /\ applied.fn = "get_availability"
    /\ applied.args.duration_minutes = 30
    /\ WellFormedWindows(applied.args.existing_bookings)
          = { [start |-> Instant(T1030), end |-> Instant(T1030) + 30] }
    /\ Shown(returned.data, T1000)
    /\ Shown(returned.data, T1100)
    /\ ~Shown(returned.data, T1030)

\* C16: the availability filter returns with a record that has no start, a
\* start that does not parse or a malformed duration among the busy
\* records; such a record is skipped, and the slots are still filtered
\* against every well-formed record, before or after it.
C16_MalformedSkipped ==
    (/\ applied.fn = "get_availability"
     /\ \E i \in 1..Len(applied.args.existing_bookings) :
           \/ applied.args.existing_bookings[i].start.kind \in {"none", "bad"}
           \/ applied.args.existing_bookings[i].duration.kind = "bad") =>
        /\ returned.status = "success"
        /\ \A i \in 1..Len(applied.args.all_slots) :
              \A j \in 1..Len(applied.args.all_slots[i].slots) :
                  LET slot == applied.args.all_slots[i].slots[j]
                  IN  Shown(returned.data, slot) <=>
                          \A w \in WellFormedWindows(applied.args.existing_bookings) :
                              ~Overlaps(slot, applied.args.duration_minutes, w)

\* C16 witness: a record whose start does not parse comes before a
\* well-formed record for 10:30, and the 10:30 slot is not shown while the
\* 10:00 slot is
C16_Witness ==
    /\ applied.fn = "get_availability"
    /\ Len(applied.args.existing_bookings) = 2
    /\ applied.args.existing_bookings[1].start = BadTime
    /\ applied.args.existing_bookings[2].start = AsTimezone(T1030, 0)
    /\ ~Shown(returned.data, T1030)
    /\ Shown(returned.data, T1000)

\* the bookings a lookup's fetch returns: the active ones, of the email
\* when one is given
Candidates(bookings, patient_email) ==
    { i \in 1..Len(bookings) :
        /\ bookings[i].status = "accepted"
        /\ (patient_email # NoneVal /\ patient_email # "") => bookings[i].email = patient_email }

\* the booking passes the name filter, the phone filter, the time filter
NameOk(b, patient_name) ==
    (patient_name # NoneVal /\ patient_name # "") => _names_match(patient_name, b.name)

PhoneOk(b, patient_phone) ==
    (patient_phone # NoneVal /\ patient_phone # "") =>
        b.phone # "" /\ b.phone # NoneVal /\ _phones_match(patient_phone, b.phone)

TimeOk(b, appointment_time) ==
    appointment_time.kind # "none" => _matches_appointment_time(b, appointment_time)

\* C17: every booking find_one or find_all returns passes each supplied
\* filter (name, phone, and for find_one time); a booking failing a supplied
\* filter is not returned; a filter that is not supplied rejects no booking:
\* find_all returns every fetched booking that passes the supplied ones, and
\* find_one returns a booking whenever one does.
C17_FiltersAndComposed ==
    LET a == applied.args
        Passing == { i \in Candidates(remote, a.patient_email) :
                        /\ NameOk(remote[i], a.patient_name)
                        /\ PhoneOk(remote[i], a.patient_phone)
                        /\ TimeOk(remote[i], a.appointment_time) }
    IN  /\ (applied.fn = "find_booking_by_patient_info" /\ returned.value # NoBooking) =>
              \E i \in Passing : remote[i] = returned.value
        /\ (applied.fn = "find_booking_by_patient_info" /\ a.fetchOk
              /\ (Truthy(a.patient_email) \/ Truthy(a.patient_name))) =>
              (Passing # {} => returned.value # NoBooking)
        /\ applied.fn = "find_all_bookings_by_patient_info" =>
              /\ \A k \in 1..Len(returned.value) :
                    \E i \in Passing : remote[i] = returned.value[k]
              /\ (a.fetchOk /\ (Truthy(a.patient_email) \/ Truthy(a.patient_name))) =>
                    \A i \in Passing :
                        \E k \in 1..Len(returned.value) : returned.value[k] = remote[i]

\* C17 witness: find_one with a name, a phone and a time returned the one
\* booking of the email that passes all three, out of several for the email
C17_Witness ==
    /\ applied.fn = "find_booking_by_patient_info"
    /\ applied.args.patient_name = "ann" /\ applied.args.patient_phone = "51"
    /\ applied.args.appointment_time = T1000 /\ applied.args.patient_email = "e1"
    /\ returned.value.uid = "u1"
    /\ Cardinality(Candidates(remote, "e1")) = 2

\* the uids of the entries of a stored appointment list
UidsOf(appointments) == { appointments[k].uid : k \in 1..Len(appointments) }

\* C18: find_all returns every booking of the candidate set that passes the
\* supplied filters, never one in place of several, and the lookup tool
\* lists and stores all of them: after a lookup that found appointments the
\* memo and the last-booking reference hold one entry for each active
\* booking of the email that passes the name and phone filters, so both
\* bookings of a shared email when no name is given.
C18_AllMatchesKept ==
    (op.fn = "lookup" /\ outcome \in {"FoundOne", "FoundMany"}) =>
        LET email == MemoOf(conversation_memo).patient_email
            Passing == { i \in Candidates(remote, email) :
                            /\ NameOk(remote[i], op.name)
                            /\ PhoneOk(remote[i], op.phone) }
            stored == MemoOf(conversation_memo).appointments
        IN  /\ email # NoneVal /\ email # ""
            /\ Len(stored) = Cardinality(Passing)
            /\ UidsOf(stored) = { remote[i].uid : i \in Passing }
            /\ last_booking.all_appointments = stored
            /\ outcome = "FoundMany" <=> Cardinality(Passing) > 1
            /\ \A k \in 1..Len(stored) :
                  \E i \in Passing : /\ stored[k].uid = remote[i].uid
                                     /\ stored[k].name = remote[i].name
                                     /\ stored[k].start = remote[i].start

\* C18 witness: a lookup by the shared email alone found and stored the
\* bookings of both attendees
C18_Witness ==
    /\ op.fn = "lookup" /\ op.name = NoneVal /\ outcome = "FoundMany"
    /\ Len(MemoOf(conversation_memo).appointments) = 2
    /\ { MemoOf(conversation_memo).appointments[k].name : k \in 1..2 } = {"Ann Lee", "Bob"}
    /\ MemoOf(conversation_memo).patient_email = "e1"

\* C19: a booking lookup with neither an email nor a name is rejected:
\* find_one returns no booking, find_all returns the empty sequence, and
\* neither fetches bookings from the remote service; with an email or a
\* name the lookup does fetch.
C19_NoIdentityNoLookup ==
    applied.fn \in {"find_booking_by_patient_info", "find_all_bookings_by_patient_info"} =>
        LET anonymous == /\ applied.args.patient_email \in {NoneVal, ""}
                         /\ applied.args.patient_name \in {NoneVal, ""}
        IN  /\ anonymous =>
                /\ returned.calls = <<>>
                /\ applied.fn = "find_booking_by_patient_info" => returned.value = NoBooking
                /\ applied.fn = "find_all_bookings_by_patient_info" => returned.value = <<>>
            /\ ~anonymous => Len(returned.calls) = 1

\* C19 witness: find_all was called with a phone only while the service
\* held a booking with that phone, and returned nothing without a fetch
C19_Witness ==
    /\ applied.fn = "find_all_bookings_by_patient_info"
    /\ applied.args.patient_email = NoneVal /\ applied.args.patient_name = ""
    /\ applied.args.patient_phone = "51" /\ applied.args.fetchOk
    /\ \E i \in 1..Len(remote) :
          remote[i].status = "accepted" /\ _phones_match("51", remote[i].phone)
    /\ returned.value = <<>> /\ returned.calls = <<>>

\* the memo field a setter writes
FieldOf(setter) ==
    CASE setter = "update_patient_email" -> "patient_email"
      [] setter = "update_patient_name" -> "patient_name"
      [] setter = "update_patient_phone" -> "patient_phone"
      [] setter = "set_appointments" -> "appointments"
      [] setter = "set_current_appointment" -> "current_appointment"
      [] setter = "set_action" -> "action"
      [] setter = "set_preferred_doctor" -> "preferred_doctor"
      [] setter = "set_appointment_reason" -> "appointment_reason"

\* the value is None or empty for the field
IsEmptyFor(field, value) ==
    IF field = "appointments" THEN value = <<>>
    ELSE IF field = "current_appointment" THEN value = NoAppointment
    ELSE value \in {NoneVal, ""}

\* C20: every ConversationMemo setter overwrites its field with a non-empty
\* value and leaves the memo as it was when given an empty or None value;
\* calling it twice with the same value gives the memo that calling it once
\* gives; and a setter changes no field other than its own.
C20_SettersRejectEmpty ==
    applied.fn \in Setters =>
        LET m == applied.args.memo
            value == applied.args.value
            field == FieldOf(applied.fn)
        IN  /\ DOMAIN returned.once = DOMAIN m
            /\ ~IsEmptyFor(field, value) => returned.once[field] = value
            /\ IsEmptyFor(field, value) => returned.once = m
            /\ returned.twice = returned.once
            /\ \A other \in DOMAIN m \ {field} : returned.once[other] = m[other]

\* C20 witness: update_patient_phone was called with an empty string on a
\* memo that holds a phone, and the memo still holds it
C20_Witness ==
    /\ applied.fn = "update_patient_phone"
    /\ applied.args.value = ""
    /\ applied.args.memo.patient_phone = "5-1"
    /\ returned.once.patient_phone = "5-1"
    /\ returned.twice = applied.args.memo

\* C21: a tool call whose timestamp argument does not parse is answered
\* with a returned outcome that asks for the corrected input; no exception
\* leaves checkAvailability, lookup, book, cancel or reschedule because of
\* the caller's input.
C21_InvalidInputAnswered ==
    (/\ op.fn \in {"availability", "lookup", "book", "cancel", "reschedule"}
     /\ \/ op.start.kind = "bad"
        \/ op.cur.kind = "bad") =>
        outcome # "ValueError"

\* C22: when the remote service fails during a read of checkAvailability,
\* the schedule fetch or the bookings fetch, the tool returns a "no data,
\* try again" outcome: no exception leaves it, and it does not present
\* slots as available.
C22_ReadFailureDegrades ==
    op.fn = "availability" =>
        /\ (Len(calls) = 1 /\ calls[1].fn = "get_first_schedule") =>
              outcome # "Exception"
        /\ (Len(calls) = 2 /\ op.via = "fetchfailed") =>
              outcome # "Slots"

\* C23: a timestamp without a UTC offset given to checkAvailability, book
\* or reschedule is rejected: no remote call is made with it and nothing is
\* booked at a time read from it.
C23_NaiveTimestampRejected ==
    (op.fn \in {"availability", "book", "reschedule"} /\ op.start.kind = "naive") =>
        /\ ~dry_run => calls = <<>>
        /\ outcome # "Booked"

\* what conversation d sees: the memo its context refers to, None for no
\* memo, and its last-booking reference
ViewOf(contexts, objects, d) ==
    [last_booking |-> contexts[d].last_booking,
     memo |-> IF contexts[d].memo = 0 THEN <<>> ELSE << objects[contexts[d].memo] >>]

\* C24: with several conversations running as parallel tasks, each with
\* its own context, an operation of one conversation leaves the memo and
\* the last-booking reference that every other conversation sees as they
\* were, under every interleaving; so a conversation never reads what
\* another one wrote, and two running conversations never share a memo.
C24_ConversationsIsolated ==
    [][\A d \in Conversations \ {applied'.conv} :
          ViewOf(task_context', memo_objects', d) = ViewOf(task_context, memo_objects, d)]_vars

\* C24 witness: both conversations run, each holds its own email in its own
\* memo and its own last booking
C24_Witness ==
    /\ task_context[1].pc = "running" /\ task_context[2].pc = "running"
    /\ task_context[1].memo # 0 /\ task_context[2].memo # 0
    /\ task_context[1].memo # task_context[2].memo
    /\ memo_objects[task_context[1].memo].patient_email = "e1"
    /\ memo_objects[task_context[2].memo].patient_email = "e2"
    /\ task_context[1].last_booking.booking_id = "u1"
    /\ task_context[2].last_booking.booking_id = "u2"

\* the memo holds no email, name, phone, doctor, reason, appointments,
\* current appointment or action
HoldsNothing(m) ==
    /\ m.patient_email = "None" /\ m.patient_name = "None"
    /\ m.patient_phone = "None" /\ m.preferred_doctor = "None"
    /\ m.appointment_reason = "None" /\ m.appointments = <<>>
    /\ m.current_appointment.id = "None" /\ m.current_appointment.time.kind = "none"
    /\ m.action = "None"

\* C25: the memo goes from empty to populated to empty: after clear() the
\* memo's fields are those of a freshly created memo, and after
\* clear_memo() the next get_memo() returns a memo with no email, name,
\* phone, doctor, reason, appointments, current appointment or action.
C25_ClearedMemoIsEmpty ==
    /\ conversation_memo # <<>> =>
          /\ HoldsNothing(clear(conversation_memo[1]))
          /\ DOMAIN clear(conversation_memo[1]) = DOMAIN conversation_memo[1]
    /\ (op.fn = "admin_cleanup" /\ outcome = "CleanupDone") =>
          /\ conversation_memo = <<>>
          /\ HoldsNothing(get_memo)

\* C25 witness: the cleanup ran after a booking had populated the memo, and
\* the memo is empty again
C25_Witness ==
    /\ op.fn = "admin_cleanup" /\ outcome = "CleanupDone"
    /\ last_booking.kind = "booked"
    /\ HoldsNothing(get_memo)

\* the hour:minute of a timestamp in the working timezone
LocalClock(t) == AsTimezone(t, 330).hm

\* C26: the reschedule duplicate guard compares the new time and the
\* existing booking's time at hour:minute granularity in the working
\* timezone: it rejects exactly when the two local hour:minute values are
\* equal, also when the two timestamps are written with different offsets.
C26_GuardComparesLocalClock ==
    (/\ op.fn = "reschedule" /\ op.via = "lookup"
     /\ IndexOfUid(remote, op.target) # 0
     /\ op.start.kind = "iso") =>
        LET old_time == remote[IndexOfUid(remote, op.target)].start
        IN  /\ outcome = "DuplicateTime" => LocalClock(old_time) = LocalClock(op.start)
            /\ CreateCallsMade # <<>> => LocalClock(old_time) # LocalClock(op.start)

\* the places in the held appointment list of the attendee name
ListedAs(patient_name) ==
    { k \in 1..Len(last_booking.all_appointments) :
        Lower(last_booking.all_appointments[k].name) = Lower(patient_name) }

EligibleMinutes(a, d) ==
    LET rule == a.schedule.workingHours[1]
    IN  { m \in 0..(MinutesPerDay - 1) :
            /\ m >= rule.startTime /\ (m - rule.startTime) % a.duration_minutes = 0
            /\ m + a.duration_minutes <= rule.endTime
            /\ Instant(TS(d, m, a.tzoff)) >= Instant(a.now) + LeadMinutes }

\* the dates from the range start's date through the range end's date, in
\* the timezone of the call
RangeDates(a) ==
    AsTimezone(a.start_dt, a.tzoff).date .. AsTimezone(a.end_dt, a.tzoff).date

\* C28: within an included day the generator returns exactly the slots
\* start_minute + k * duration_minutes that end by end_minute and start no
\* earlier than now + 10 minutes, in increasing order and without
\* duplicates; the days run from the range start's date through the range
\* end's date inclusive, in the range's timezone.
C28_ExactSlotsPerDay ==
    (GeneratorReturned /\ applied.args.schedule.workingHours # <<>>) =>
        LET a == applied.args
            rule == a.schedule.workingHours[1]
        IN  /\ \A i \in 1..Len(returned) :
                  LET day == returned[i]
                  IN  /\ day.date \in RangeDates(a)
                      /\ IsoWeekday(day.date) \in rule.days
                      /\ { day.slots[j].hm : j \in 1..Len(day.slots) } = EligibleMinutes(a, day.date)
                      /\ \A j \in 1..Len(day.slots) :
                            /\ day.slots[j].date = day.date
                            /\ day.slots[j].off = a.tzoff
                            /\ j > 1 => day.slots[j - 1].hm < day.slots[j].hm
                      /\ i > 1 => returned[i - 1].date < day.date
            /\ \A d \in RangeDates(a) :
                  (IsoWeekday(d) \in rule.days /\ EligibleMinutes(a, d) # {}) =>
                      \E i \in 1..Len(returned) : returned[i].date = d

\* C28 witness: a range written in UTC for Monday, asked in the working
\* timezone at 11:05, gives Monday from 11:30 and Tuesday from 10:00, each
\* up to the slot that ends at 14:00
C28_Witness ==
    /\ applied.fn = "generate_slots_from_schedule"
    /\ applied.args.start_dt = TS(0, 0, 0) /\ applied.args.tzoff = KolkataOffset
    /\ applied.args.duration_minutes = 30
    /\ Len(returned) = 2
    /\ returned[1].date = 0 /\ returned[1].slots[1].hm = 11 * 60 + 30
    /\ returned[2].date = 1 /\ returned[2].slots[1].hm = 10 * 60
    /\ returned[2].slots[Len(returned[2].slots)].hm = 13 * 60 + 30

\* the slots of a day of all_slots that no busy window of the call blocks
FreeSlots(a, day) ==
    { j \in 1..Len(day.slots) :
        \A w \in blocked_times(a.existing_bookings) :
            ~IsBlocked(Instant(day.slots[j]), Instant(day.slots[j]) + a.duration_minutes, w.start, w.end) }

\* C29: no date in the result of the slot generator or of the availability
\* filter maps to an empty slot list: a day without an eligible slot, or
\* whose slots are all removed by busy intervals, is absent.
C29_NoEmptyDay ==
    /\ GeneratorReturned =>
          \A i \in 1..Len(returned) : returned[i].slots # <<>>
    /\ applied.fn = "get_availability" =>
          /\ \A i \in 1..Len(returned.data) : returned.data[i].slots # <<>>
          /\ \A k \in 1..Len(applied.args.all_slots) :
                LET day == applied.args.all_slots[k]
                IN  (\E i \in 1..Len(returned.data) : returned.data[i].date = day.date)
                        <=> FreeSlots(applied.args, day) # {}

\* C29 witness: Tuesday and Wednesday have slots and a booking takes the
\* whole of Tuesday: the result holds Wednesday only
C29_Witness ==
    /\ applied.fn = "get_availability"
    /\ Len(applied.args.all_slots) = 2
    /\ applied.args.all_slots[1].date = 1 /\ applied.args.all_slots[1].slots # <<>>
    /\ Len(returned.data) = 1 /\ returned.data[1].date = 2

\* C30: if the schedule has no working-hours rule, or the rule's weekday
\* set is empty or absent, the slot generator returns an empty mapping and
\* raises no error.
C30_NoRuleNoError ==
    (/\ applied.fn = "generate_slots_from_schedule"
     /\ \/ applied.args.schedule.workingHours = <<>>
        \/ "days" \notin DOMAIN applied.args.schedule.workingHours[1]
        \/ applied.args.schedule.workingHours[1].days = {}) =>
        returned = <<>>

\* C31: when several bookings match, the result is ordered by descending
\* start time: find_one returns the match with the latest start, and
\* find_all returns its matches in that same latest-first order.
C31_LatestFirst ==
    /\ (applied.fn = "find_booking_by_patient_info" /\ returned.value # NoBooking) =>
          LET a == applied.args
          IN  \A i \in 1..Len(remote) :
                  (/\ IsActive(remote[i])
                   /\ Truthy(a.patient_email) => remote[i].email = a.patient_email
                   /\ PassesNamePhone(remote[i], a.patient_name, a.patient_phone)
                   /\ TruthyTime(a.appointment_time) => _matches_appointment_time(remote[i], a.appointment_time))
                      => Instant(remote[i].start) <= Instant(returned.value.start)
    /\ applied.fn = "find_all_bookings_by_patient_info" =>
          \A i \in 1..Len(returned.value) : \A j \in 1..Len(returned.value) :
              i < j => Instant(returned.value[i].start) >= Instant(returned.value[j].start)

\* the conversation starts with no cancelled booking on the service and a
\* booking becomes cancelled there only when a cancel request of the
\* conversation succeeds: these are the uids cancelled by earlier operations
CancelledEarlier(uid) == RemoteStatus(remote, uid) = "cancelled"

\* C32: across any sequence of lookup, book, cancel and reschedule
\* operations in one conversation, the remote cancelBooking is never invoked
\* for a booking uid that an earlier operation of the same conversation has
\* already cancelled successfully.
C32_NoSecondCancel ==
    [][op'.fn \in {"lookup", "book", "cancel", "reschedule"} =>
          \A k \in 1..Len(calls') :
              calls'[k].fn = "cancel_appointment" => ~CancelledEarlier(calls'[k].uid)]_vars

\* C33: after a successful reschedule the last-booking reference used for
\* quick cancel and reschedule identifies the newly created booking, by its
\* uid and its new start time.
C33_LastBookingIsNewBooking ==
    (op.fn = "reschedule" /\ outcome = "Rescheduled" /\ ~dry_run) =>
        LET new_booking == remote[Len(remote)]
        IN  /\ last_booking.booking_id = new_booking.uid
            /\ TruthyTime(last_booking.appointment_time)
            /\ Instant(last_booking.appointment_time) = Instant(new_booking.start)

\* C34: the availability tool reports the clinic as closed only if no day of
\* the requested range, from the start date through the end date, is a
\* working day: a short range that starts on a Saturday or Sunday and ends
\* on a weekday is queried normally.
C34_ClosedOnlyWithoutWorkingDay ==
    (op.fn = "availability" /\ Parses(op.start) /\ Parses(op.cur) /\ outcome = "Closed") =>
        /\ OnlyWeekendDays(op.start, op.cur)
        /\ calls = <<>>

\* the booking uid of the service starts at the date, hour and minute of t,
\* both read in the working timezone
StartsAtMinute(uid, t) ==
    /\ IndexOfUid(remote, uid) # 0
    /\ AsTimezone(remote[IndexOfUid(remote, uid)].start, KolkataOffset).date = AsTimezone(t, KolkataOffset).date
    /\ AsTimezone(remote[IndexOfUid(remote, uid)].start, KolkataOffset).hm = AsTimezone(t, KolkataOffset).hm

\* C35: when cancel or reschedule resolves a booking from an email and a
\* full ISO appointment time, the selected booking starts on the same date,
\* hour and minute as the requested time in the working timezone; another
\* booking of the email within the same hour is never selected in its place.
C35_SelectedAtRequestedMinute ==
    /\ (op.fn = "cancel" /\ op.cur.kind = "iso" /\ CancelCallsMade # <<>>
          /\ calls[1].fn = "get_bookings_by_email") =>
            StartsAtMinute(CancelCallsMade[1].uid, op.cur)
    /\ (op.fn = "reschedule" /\ op.cur.kind = "iso" /\ op.via = "lookup" /\ Truthy(op.target)) =>
            StartsAtMinute(op.target, op.cur)

\* ConversationMemo.has_appointments()
has_appointments(m) == Len(m.appointments) > 0

\* C36: after a lookup that yields zero matching bookings the memo's stored
\* appointment list is empty (has_appointments is false), also when an
\* earlier lookup of the conversation had stored a list.
C36_EmptyLookupEmptiesList ==
    (op.fn = "lookup" /\ outcome = "NoAppointments") =>
        /\ ~has_appointments(MemoOf(conversation_memo))
        /\ MemoOf(conversation_memo).appointments = <<>>

\* C37: whenever the remote booking request succeeds inside book, book
\* reports the appointment as booked and records the new booking's uid,
\* email and start time as the last-booking reference, whatever the outcome
\* of the local database steps.
C37_RemoteSuccessIsReported ==
    [][(op'.fn = "book" /\ Len(remote') > Len(remote)) =>
          /\ outcome' = "Booked"
          /\ last_booking'.booking_id = remote'[Len(remote')].uid
          /\ last_booking'.email = op'.email
          /\ last_booking'.appointment_time = op'.start]_vars

\* a cancel or a reschedule called without a name, an email, a phone, an
\* appointment time or a booking uid
WithoutIdentity(o) ==
    /\ o.fn \in {"cancel", "reschedule"}
    /\ ~Truthy(o.name) /\ ~Truthy(o.email) /\ ~Truthy(o.phone) /\ ~Truthy(o.uid)
    /\ ~TruthyTime(o.cur)

\* C38: after the conversation's memo is cleared by the admin reset no
\* identity or booking reference from before the clear is used: a following
\* cancel or reschedule without identity arguments asks for the caller's
\* email and makes no remote call.
C38_NothingUsedAfterClear ==
    [][(/\ op.fn = "admin_cleanup" /\ outcome = "CleanupDone"
        /\ WithoutIdentity(op')
        /\ op'.fn = "reschedule" => Parses(op'.start)) =>
          /\ calls' = <<>>
          /\ outcome' = "AskEmail"]_vars

\* the fields of the memo a rejected book leaves alone
IdentityFields ==
    {"patient_name", "patient_phone", "patient_email", "appointments", "current_appointment"}

\* C39: a book call rejected for incomplete identity changes none of the
\* memo's patient_name, patient_phone, patient_email, appointments and
\* current_appointment fields and leaves the last-booking reference
\* unchanged; only the action, preferred doctor and appointment reason may
\* change.
C39_RejectedBookKeepsIdentity ==
    [][(op'.fn = "book" /\ outcome' \in {"AskName", "AskPhone", "AskEmail"}) =>
          /\ \A f \in IdentityFields :
                MemoOf(conversation_memo')[f] = MemoOf(conversation_memo)[f]
          /\ last_booking' = last_booking
          /\ remote' = remote /\ calls' = <<>>]_vars

\* C39 witness: after a lookup stored e1 and its two appointments, a book
\* call without a phone was rejected; the memo still holds them and the
\* action is "book"
C39_Witness ==
    /\ op.fn = "book" /\ outcome = "AskPhone" /\ op.name = "Bob" /\ op.email = "e2"
    /\ MemoOf(conversation_memo).patient_email = "e1"
    /\ Len(MemoOf(conversation_memo).appointments) = 2
    /\ MemoOf(conversation_memo).action = "book"
    /\ last_booking.kind = "found"

\* C40: slot generation terminates for every finite range and every integer
\* duration_minutes the availability tool accepts, 0 and negative values
\* included.
C40_GenerationTerminates == <>(frame.pc \in {"done", "raised"})

====
